---- MODULE Spec2Model ----
(***************************************************************************)
(* A model of the USB hub driver (drivers/usb/core/hub.c, kept in this     *)
(* tree as src/drivers/usb/gadget/u_serial.h): the device tree and its     *)
(* state machine, the bus address map, the khubd event list, the           *)
(* connection debounce and the enumeration of a port.                      *)
(*                                                                         *)
(* Several specifications share the variables:                             *)
(*   SpecTree      the device tree manager, one call per step              *)
(*   SpecDebounce  hub_port_debounce, one status sample per step           *)
(*   Spec          khubd (hub_events and the enumeration of a port), a     *)
(*                 caller of usb_reset_device and the interrupt side,      *)
(*                 interleaved at their blocking points                    *)
(*   SpecQueue     hub_event_list: the callers of kick_khubd, hub_events   *)
(*                 and hub_disconnect                                      *)
(*   SpecHub       one hub: hub_irq and the status URB, hub_quiesce and    *)
(*                 hub_activate, the passes of hub_events, hub_disconnect  *)
(*   SpecLpm       usb_disable_lpm and usb_enable_lpm on one device        *)
(*   SpecDevnum    choose_devnum and release_devnum over address maps      *)
(*                 drawn from a family that has full and nearly full maps  *)
(*   SpecReset     hub_port_reset and hub_port_wait_reset, one request or  *)
(*                 status read per step                                    *)
(*   SpecOwner     the owners of the ports: usb_hub_claim_port and         *)
(*                 usb_hub_release_port against the tree manager           *)
(*   SpecPorts     khubd with the interrupt side and usb_remove_device     *)
(*   SpecBusy      the loop of hub_events over the ports and the busy,     *)
(*                 event, change and wakeup bits of the ports              *)
(*   SpecInit      hub_port_init: the port resets and the descriptor       *)
(*                 probes of one call                                      *)
(*   SpecLpmParams usb_set_lpm_parameters along a path of devices          *)
(*   SpecLinkState usb_enable_link_state and usb_disable_link_state        *)
(*   SpecAttempts  the loop of the attempts of hub_port_connect_change     *)
(*   SpecWorker    hub_thread and the passes of hub_events against        *)
(*                 kick_khubd and hub_disconnect, with the usage counts    *)
(*   SpecPower     usb_port_suspend, usb_port_resume and the reset of one  *)
(*                 device, with the references of its port                 *)
(***************************************************************************)
EXTENDS Integers, Sequences, FiniteSets, TLC

(***************************************************************************)
(* Bounds of the model.                                                    *)
(***************************************************************************)
\* downstream ports of every hub
NPorts == 2
\* usb_alloc_dev succeeds this many times; afterwards it returns NULL
MaxAlloc == 2
\* the value of jiffies: the clock does not advance within a run
Jiffies == 1
\* milliseconds between two changes of the connection bit of a bouncing port
TogglePeriod == 10

(***************************************************************************)
(* Program constants.                                                      *)
(***************************************************************************)
\* size of bus->devmap.devicemap, the bound of find_next_zero_bit
DevMapBits == 128
\* the debounce of a connection, in milliseconds
HUB_DEBOUNCE_TIMEOUT == 2000
HUB_DEBOUNCE_STEP == 25
HUB_DEBOUNCE_STABLE == 100

NULL == 0
RootHub == 1
Devs == 1..(1 + MaxAlloc)
Ports == 1..NPorts

USB_STATE_NOTATTACHED == "NOTATTACHED"
USB_STATE_ATTACHED == "ATTACHED"
USB_STATE_POWERED == "POWERED"
USB_STATE_DEFAULT == "DEFAULT"
USB_STATE_ADDRESS == "ADDRESS"
USB_STATE_CONFIGURED == "CONFIGURED"
USB_STATE_SUSPENDED == "SUSPENDED"
DeviceStates == {USB_STATE_NOTATTACHED, USB_STATE_ATTACHED, USB_STATE_POWERED,
                 USB_STATE_DEFAULT, USB_STATE_ADDRESS, USB_STATE_CONFIGURED,
                 USB_STATE_SUSPENDED}

VARIABLES
    \* ---- struct usb_device, indexed by device object
    alloc,            \* the object exists (its reference count is not zero)
    state,            \* udev->state
    devnum,           \* udev->devnum
    parent,           \* udev->parent (NULL for the root hub)
    portnum,          \* udev->portnum
    maxchild,         \* udev->maxchild: > 0 while the hub driver is bound
    is_hub,           \* descriptor.bDeviceClass == USB_CLASS_HUB
    active_duration,  \* udev->active_duration
    child,            \* hub->ports[p - 1]->child of the device's hub
    \* ---- struct usb_bus
    devicemap,        \* bus->devmap.devicemap, the set of set bits
    devnum_next,      \* bus->devnum_next
    nalloc,           \* number of usb_alloc_dev calls that returned an object
    \* ---- the last call made in SpecTree or SpecQueue and what it was
    \*      applied to
    call,
    \* ---- hub_port_debounce (SpecDebounce)
    db,
    \* ---- struct usb_hub of every hub device (SpecHub): nerrors, error,
    \*      event_bits, quiescing, kref, the status URB and init_work
    hubst,
    \* ---- the ports whose enable bit the driver has set by a port reset and
    \*      not cleared since, as pairs <<hub, port1>>
    port_enabled,
    \* ---- link power management of a SuperSpeed device (SpecLpm)
    lpm,
    \* ---- hub->ports[port1 - 1]->port_owner of every hub (SpecOwner)
    port_owner,
    \* ---- hub_port_reset and hub_port_wait_reset (SpecReset)
    rst,
    \* ---- hub_port_init from its port reset to the address (SpecInit)
    hpi,
    \* ---- the devices on the path from the root hub to the device last
    \*      enumerated, with their usb3_lpm_parameters (SpecLpmParams)
    lpm_path,
    \* ---- usb_enable_link_state on one device (SpecLinkState)
    link,
    \* ---- the attempts of one hub_port_connect_change call (SpecAttempts)
    att,
    \* ---- intf->pm_usage_cnt of the interface of every hub, as far as kick_khubd, hub_events and hub_disconnect change it (SpecWorker)
    pm_usage_cnt,
    \* ---- one child device on a port: the calls of the power management
    pw,
    \* ---- khubd and its callers (Spec)
    hub_event_list,       \* the hubs linked on hub_event_list, in order
    disconnected,         \* hub->disconnected
    busy_bits,            \* hub->busy_bits
    devlock,              \* owner of the device lock (usb_lock_device)
    usb_address0_mutex,   \* owner of the mutex of hub_port_init
    th                    \* position and locals of khubd and of the resetter

callVars == <<rst, hpi, lpm_path, link, att, pm_usage_cnt, pw>>
treeVars == <<alloc, state, devnum, parent, portnum, maxchild, is_hub,
              active_duration, child, devicemap, devnum_next, nalloc>>
enumVars == <<hub_event_list, disconnected, busy_bits, devlock,
              usb_address0_mutex, th>>
vars == <<alloc, state, devnum, parent, portnum, maxchild, is_hub,
          active_duration, child, devicemap, devnum_next, nalloc, call, db, hubst, port_enabled, lpm, port_owner, callVars,
          hub_event_list, disconnected, busy_bits, devlock,
          usb_address0_mutex, th>>

\* the two contexts that sleep: khubd and a caller of usb_reset_device
Threads == {"khubd", "reset"}
NoThread == "none"
Idle == [pc |-> "idle", hub |-> NULL, port1 |-> 0, i |-> 0, udev |-> NULL,
         status |-> "0", devnum |-> 0, seen_gone |-> FALSE]

NoCall == [op |-> "none", dev |-> NULL, new_state |-> "", addrs |-> {},
           disconnected |-> FALSE, port1 |-> 0, owner |-> NULL,
           ret |-> "none", skipped |-> {}]
NoDebounce == [pc |-> "off", port1 |-> 0, must_be_connected |-> FALSE,
               total_time |-> 0, stable_time |-> 0, connection |-> 65535,
               portstatus |-> 0, ret |-> "none", toggling |-> FALSE,
               phase |-> 0, read |-> "none", hist |-> << >>]

(***************************************************************************)
(* The state after the root hub of the bus has been registered and its hub *)
(* driver bound: register_root_hub gives it address 1 and leaves            *)
(* devnum_next at 2; hub_configure sets maxchild.                           *)
(***************************************************************************)
TreeInit ==
    /\ alloc = [d \in Devs |-> d = RootHub]
    /\ state = [d \in Devs |-> IF d = RootHub THEN USB_STATE_CONFIGURED
                                              ELSE USB_STATE_NOTATTACHED]
    /\ devnum = [d \in Devs |-> IF d = RootHub THEN 1 ELSE 0]
    /\ parent = [d \in Devs |-> NULL]
    /\ portnum = [d \in Devs |-> 0]
    /\ maxchild = [d \in Devs |-> IF d = RootHub THEN NPorts ELSE 0]
    /\ is_hub = [d \in Devs |-> d = RootHub]
    /\ active_duration = [d \in Devs |-> 0]
    /\ child = [d \in Devs |-> [p \in Ports |-> NULL]]
    /\ devicemap = {1}
    /\ devnum_next = 2
    /\ nalloc = 0

\* struct usb_hub of a device without a hub driver.  urb is the state of
\* hub->urb: "idle", "inflight", "unlinked" (its completion with -ENOENT is
\* due), "resubmit" and "submit" (hub_irq runs, before its test of
\* hub->quiescing and before its usb_submit_urb); reject is urb->reject;
\* urb_status is urb->status of the last completion, buffer the change bits
\* it reported; init_work is "none" or the stage of hub_activate that is
\* scheduled
NoHub == [nerrors |-> 0, error |-> "0", event_bits |-> {}, buffer |-> {},
          quiescing |-> FALSE, kref |-> 0, urb |-> "idle",
          urb_status |-> "0", reject |-> FALSE,
          init_work |-> "none", freed |-> FALSE,
          change_bits |-> {}, removed_bits |-> {}, wakeup_bits |-> {}]
\* struct usb_hub after hub_probe and hub_activate: kref_init, quiescing = 0,
\* the status URB submitted
BoundHub == [NoHub EXCEPT !.kref = 1, !.urb = "inflight"]
\* link power management of one SuperSpeed device: no usb_disable_lpm call
\* yet, both link states enabled.  u1 and u2 say that u1_params.timeout and
\* u2_params.timeout are not 0; pc is the position inside a call, op the
\* function the caller called, ret what the last call returned, link_ok
\* whether the last usb_enable_link_state enabled its state; disables
\* counts the usb_disable_lpm calls that returned 0, enables the
\* usb_enable_lpm calls of the callers, failed the usb_disable_lpm calls
\* that returned an error
NoLpm == [lpm_disable_count |-> 0, u1 |-> TRUE, u2 |-> TRUE,
          pc |-> "idle", op |-> "none", ret |-> "0", link_ok |-> TRUE,
          disables |-> 0, enables |-> 0, failed |-> 0]

\* no port has an owner: the port structures are allocated zeroed
NoOwners == [d \in Devs |-> [p \in Ports |-> NULL]]

\* no call of hub_port_reset, hub_port_init, usb_set_lpm_parameters or
\* usb_enable_link_state has been made
NoReset == [pc |-> "idle", superspeed |-> FALSE, warm |-> FALSE,
            delay |-> 0, i |-> 0, status |-> "0", wdelay |-> 0,
            delay_time |-> 0, slept |-> 0, last |-> "none", tries |-> 0,
            ret |-> "none"]
NoInit == [pc |-> "idle", new_scheme |-> FALSE, i |-> 0, r |-> "0",
           resets |-> 0, probes |-> << >>, ret |-> "none"]
NoLink == [op |-> "none", state |-> "U1", timeout |-> 0, reserved |-> FALSE,
           actconfig |-> FALSE, configured |-> FALSE, asked |-> FALSE,
           programmed |-> "none", sent |-> {}, stored_before |-> 0,
           port_before |-> 0, hcd_before |-> {}, u1_timeout |-> 0,
           u2_timeout |-> 0, port_u1 |-> 0, port_u2 |-> 0, hcd |-> {}]
\* no hub_port_connect_change call has been made.  i is the loop counter of
\* the call, status its local, tries the status each pass of the loop ended
\* with ("nodev" when usb_alloc_dev returned NULL)
NoAttempts == [pc |-> "idle", i |-> 0, status |-> "0", tries |-> << >>]
\* no device is registered on the port.  pc is "none" without a device,
\* "idle" between calls, "resume_busy" and "resume_cleared" inside
\* usb_port_resume, "reset_busy" inside usb_reset_and_verify_device; caller
\* is "resume" while finish_port_resume runs; usage_count is the runtime-PM
\* usage count of the port; before is lpm_disable_count at the last
\* usb_port_suspend; last and ret are the last call and what it returned
NoPower == [pc |-> "none", caller |-> "none", status |-> "0", ret |-> "0",
            last |-> "none", i |-> 0, state |-> USB_STATE_NOTATTACHED,
            reset_resume |-> FALSE, persist_enabled |-> FALSE,
            do_remote_wakeup |-> FALSE, did_runtime_put |-> FALSE,
            usage_count |-> 0, port_is_suspended |-> FALSE,
            before |-> 0, calls |-> 0]
CallsInit ==
    /\ port_owner = NoOwners
    /\ rst = NoReset
    /\ hpi = NoInit
    /\ lpm_path = << >>
    /\ link = NoLink
    /\ att = NoAttempts
    /\ pm_usage_cnt = [d \in Devs |-> 0]
    /\ pw = NoPower

\* hub_event_list is empty, no lock is held, khubd sleeps in hub_thread
EnumInit ==
    /\ hubst = [d \in Devs |-> IF d = RootHub THEN BoundHub ELSE NoHub]
    /\ port_enabled = {}
    /\ lpm = NoLpm
    /\ CallsInit
    /\ hub_event_list = << >>
    /\ disconnected = [d \in Devs |-> FALSE]
    /\ busy_bits = [d \in Devs |-> {}]
    /\ devlock = [d \in Devs |-> NoThread]
    /\ usb_address0_mutex = NoThread
    /\ th = [t \in Threads |-> Idle]

(***************************************************************************)
(* usb_hub_to_struct_hub: the hub structure of a device, or NULL.  A hub   *)
(* structure is identified with its device.  actconfig is set for every    *)
(* device whose maxchild is not zero.                                      *)
(***************************************************************************)
usb_hub_to_struct_hub(hdev) ==
    IF hdev = NULL \/ maxchild[hdev] = 0 THEN NULL ELSE hdev

\* the ports of a hub device that hold a child
ChildPorts(hdev) == {p \in 1..maxchild[hdev] : child[hdev][p] # NULL}

(***************************************************************************)
(* recursively_mark_NOTATTACHED: the set of devices whose state the call   *)
(* sets to NOTATTACHED.  The function returns at once for a device without *)
(* a hub structure.                                                        *)
(***************************************************************************)
RECURSIVE recursively_mark_NOTATTACHED(_)
recursively_mark_NOTATTACHED(udev) ==
    IF usb_hub_to_struct_hub(udev) = NULL
    THEN {}
    ELSE {udev} \cup UNION {recursively_mark_NOTATTACHED(child[udev][p]) :
                            p \in ChildPorts(udev)}

\* usb_set_device_state without its first test, the one that leaves a
\* NOTATTACHED device alone
usb_set_device_state_unguarded(udev, new_state, jiffies) ==
    IF new_state # USB_STATE_NOTATTACHED
    THEN [state |-> [state EXCEPT ![udev] = new_state],
          active_duration |->
            IF new_state = USB_STATE_SUSPENDED /\ state[udev] # USB_STATE_SUSPENDED
            THEN [active_duration EXCEPT ![udev] = @ + jiffies]
            ELSE active_duration]
    ELSE [state |-> [state EXCEPT ![udev] = USB_STATE_NOTATTACHED],
          active_duration |-> active_duration]

(***************************************************************************)
(* usb_set_device_state: the state and active_duration tables after the    *)
(* call, given the value of jiffies.                                       *)
(***************************************************************************)
usb_set_device_state(udev, new_state, jiffies) ==
    IF state[udev] = USB_STATE_NOTATTACHED
    THEN [state |-> state, active_duration |-> active_duration]
    ELSE IF new_state # USB_STATE_NOTATTACHED
    THEN [state |-> [state EXCEPT ![udev] = new_state],
          active_duration |->
            IF state[udev] = USB_STATE_SUSPENDED /\ new_state # USB_STATE_SUSPENDED
            THEN [active_duration EXCEPT ![udev] = @ - jiffies]
            ELSE IF new_state = USB_STATE_SUSPENDED /\ state[udev] # USB_STATE_SUSPENDED
            THEN [active_duration EXCEPT ![udev] = @ + jiffies]
            ELSE active_duration]
    ELSE LET marked == recursively_mark_NOTATTACHED(udev) IN
         [state |-> [d \in Devs |-> IF d \in marked THEN USB_STATE_NOTATTACHED
                                                    ELSE state[d]],
          active_duration |->
            [d \in Devs |-> IF d \in marked /\ state[d] = USB_STATE_SUSPENDED
                            THEN active_duration[d] - jiffies
                            ELSE active_duration[d]]]

\* find_next_zero_bit that starts its search at bit 1 whatever the offset
find_next_zero_bit_from_one(map, size, offset) ==
    IF \E n \in 1..(size - 1) : n \notin map
    THEN CHOOSE n \in 1..(size - 1) :
            n \notin map /\ \A m \in 1..(n - 1) : m \in map
    ELSE size

(***************************************************************************)
(* find_next_zero_bit over the address map.                                *)
(***************************************************************************)
find_next_zero_bit(map, size, offset) ==
    IF \E n \in offset..(size - 1) : n \notin map
    THEN CHOOSE n \in offset..(size - 1) :
            n \notin map /\ \A m \in offset..(n - 1) : m \in map
    ELSE size

\* choose_devnum that hands out bus->devnum_next without a search of the map
choose_devnum_without_search(map, next) ==
    [devnum |-> next, devicemap |-> map \cup {next}, devnum_next |-> next]

\* choose_devnum without the second search, the one that wraps to bit 1
choose_devnum_without_wrap(map, next) ==
    LET dn == find_next_zero_bit(map, DevMapBits, next)
    IN [devnum |-> IF dn < DevMapBits THEN dn ELSE 0,
        devicemap |-> IF dn < DevMapBits THEN map \cup {dn} ELSE map,
        devnum_next |-> IF dn >= DevMapBits - 1 THEN 1 ELSE dn + 1]

(***************************************************************************)
(* choose_devnum for a device that is not a wireless USB device: the       *)
(* address it gets (0, the value of a new object, when none is free), and  *)
(* the map and devnum_next afterwards.                                     *)
(***************************************************************************)
choose_devnum(map, next) ==
    LET first == find_next_zero_bit(map, DevMapBits, next)
        dn == IF first >= DevMapBits
              THEN find_next_zero_bit(map, DevMapBits, 1) ELSE first
    IN [devnum |-> IF dn < DevMapBits THEN dn ELSE 0,
        devicemap |-> IF dn < DevMapBits THEN map \cup {dn} ELSE map,
        devnum_next |-> IF dn >= DevMapBits - 1 THEN 1 ELSE dn + 1]

\* release_devnum that forgets to clear the bit of the address
release_devnum_keeps_bit(dn, map) ==
    IF dn > 0 THEN [devnum |-> -1, devicemap |-> map]
              ELSE [devnum |-> dn, devicemap |-> map]

(***************************************************************************)
(* release_devnum: the device's devnum and the map afterwards.             *)
(***************************************************************************)
release_devnum(dn, map) ==
    IF dn > 0 THEN [devnum |-> -1, devicemap |-> map \ {dn}]
              ELSE [devnum |-> dn, devicemap |-> map]

(***************************************************************************)
(* usb_disconnect(&hub->ports[p - 1]->child).                              *)
(***************************************************************************)
\* the devices usb_disconnect is called for, by its recursion over the
\* children of a device that has a hub structure
RECURSIVE DisconnectSet(_)
DisconnectSet(udev) ==
    {udev} \cup
    (IF usb_hub_to_struct_hub(udev) = NULL THEN {}
     ELSE UNION {DisconnectSet(child[udev][p]) : p \in ChildPorts(udev)})

\* the devices set to NOTATTACHED by the usb_set_device_state call that opens
\* every usb_disconnect of the recursion
DisconnectMarked(udev) ==
    UNION {recursively_mark_NOTATTACHED(x) :
           x \in {y \in DisconnectSet(udev) : state[y] # USB_STATE_NOTATTACHED}}

\* release_devnum applied to every device of a set: the map afterwards
RECURSIVE ReleaseAll(_, _)
ReleaseAll(devs, map) ==
    IF devs = {} THEN map
    ELSE LET d == CHOOSE x \in devs : TRUE
         IN ReleaseAll(devs \ {d}, release_devnum(devnum[d], map).devicemap)

\* usb_disconnect that leaves the port pointers alone
keep_child_pointers(gone) == child

\* *pdev = NULL under device_state_lock, in every usb_disconnect of the
\* recursion: the port pointers afterwards
clear_child_pointers(gone) ==
    [d \in Devs |-> [p \in Ports |->
        IF child[d][p] \in gone THEN NULL ELSE child[d][p]]]

\* the tables after usb_disconnect of udev has returned; the devices in held
\* are referenced from elsewhere and outlive put_device
usb_disconnect(udev, jiffies, held) ==
    LET gone == DisconnectSet(udev)
        marked == DisconnectMarked(udev)
    IN [state |-> [d \in Devs |-> IF d \in marked THEN USB_STATE_NOTATTACHED
                                                  ELSE state[d]],
        active_duration |->
            [d \in Devs |-> IF d \in marked /\ state[d] = USB_STATE_SUSPENDED
                            THEN active_duration[d] - jiffies
                            ELSE active_duration[d]],
        \* release_devnum of every device of the recursion
        devnum |-> [d \in Devs |-> IF d \in gone
                                   THEN release_devnum(devnum[d], devicemap).devnum
                                   ELSE devnum[d]],
        devicemap |-> ReleaseAll(gone, devicemap),
        child |-> clear_child_pointers(gone),
        \* hub_disconnect, reached through usb_disable_device
        maxchild |-> [d \in Devs |-> IF d \in gone THEN 0 ELSE maxchild[d]],
        \* put_device
        alloc |-> [d \in Devs |-> alloc[d] /\ (d \notin gone \/ d \in held)]]

\* a device and its descendants, by the child pointers of the ports
RECURSIVE Subtree(_)
Subtree(udev) ==
    {udev} \cup UNION {Subtree(child[udev][p]) :
                       p \in {q \in Ports : child[udev][q] # NULL}}

(***************************************************************************)
(* SpecTree: the device tree manager.  Every step is one call, made by     *)
(* khubd or by another holder of the device.                               *)
(***************************************************************************)
\* hub_port_connect_change on a port without a child, every collaborator
\* operation succeeding: usb_alloc_dev, choose_devnum, hub_port_init, the
\* link of the child and usb_new_device, whose driver binding configures the
\* device when configured is TRUE
T_connect(hub, port1, hubclass, configured) ==
    /\ alloc[hub]
    /\ usb_hub_to_struct_hub(hub) # NULL
    /\ state[hub] # USB_STATE_NOTATTACHED
    /\ port1 <= maxchild[hub]
    /\ child[hub][port1] = NULL
    /\ nalloc < MaxAlloc
    /\ LET udev == RootHub + nalloc + 1
           c == choose_devnum(devicemap, devnum_next)
       IN /\ c.devnum > 0
          /\ nalloc' = nalloc + 1
          /\ alloc' = [alloc EXCEPT ![udev] = TRUE]
          /\ state' = [state EXCEPT ![udev] =
                          IF configured THEN USB_STATE_CONFIGURED
                                        ELSE USB_STATE_ADDRESS]
          /\ devnum' = [devnum EXCEPT ![udev] = c.devnum]
          /\ devicemap' = c.devicemap
          /\ devnum_next' = c.devnum_next
          /\ parent' = [parent EXCEPT ![udev] = hub]
          /\ portnum' = [portnum EXCEPT ![udev] = port1]
          /\ is_hub' = [is_hub EXCEPT ![udev] = hubclass]
          /\ child' = [child EXCEPT ![hub][port1] = udev]
          /\ call' = NoCall
    /\ UNCHANGED <<maxchild, active_duration, db, hubst, port_enabled, lpm, port_owner, callVars, enumVars>>

\* hub_probe and hub_configure of a configured hub-class device
T_hub_probe(hdev) ==
    /\ alloc[hdev]
    /\ is_hub[hdev]
    /\ state[hdev] = USB_STATE_CONFIGURED
    /\ maxchild[hdev] = 0
    /\ maxchild' = [maxchild EXCEPT ![hdev] = NPorts]
    /\ call' = NoCall
    /\ UNCHANGED <<alloc, state, devnum, parent, portnum, is_hub,
                   active_duration, child, devicemap, devnum_next, nalloc, db, hubst, port_enabled, lpm, port_owner, callVars,
                   enumVars>>

\* usb_set_device_state(udev, new_state)
T_set_device_state(udev, new_state, jiffies) ==
    /\ alloc[udev]
    /\ LET r == usb_set_device_state(udev, new_state, jiffies) IN
          /\ state' = r.state
          /\ active_duration' = r.active_duration
    /\ call' = [NoCall EXCEPT !.op = "usb_set_device_state", !.dev = udev,
                              !.new_state = new_state]
    /\ UNCHANGED <<alloc, devnum, parent, portnum, maxchild, is_hub, child,
                   devicemap, devnum_next, nalloc, db, hubst, port_enabled, lpm, port_owner, callVars, enumVars>>

\* usb_disconnect(&hub->ports[port1 - 1]->child)
T_usb_disconnect(hub, port1, jiffies) ==
    /\ alloc[hub]
    /\ port1 <= maxchild[hub]
    /\ child[hub][port1] # NULL
    /\ LET udev == child[hub][port1]
           r == usb_disconnect(udev, jiffies, {})
       IN /\ state' = r.state
          /\ active_duration' = r.active_duration
          /\ devnum' = r.devnum
          /\ devicemap' = r.devicemap
          /\ child' = r.child
          /\ maxchild' = r.maxchild
          /\ alloc' = r.alloc
          \* hub_disconnect frees the port structures of a hub, the owners
          \* with them
          /\ port_owner' = [d \in Devs |->
                               IF maxchild[d] > 0 /\ r.maxchild[d] = 0
                               THEN [p \in Ports |-> NULL]
                               ELSE port_owner[d]]
          /\ call' = [NoCall EXCEPT !.op = "usb_disconnect", !.dev = udev,
                                    !.addrs = {devnum[d] : d \in Subtree(udev)}]
    /\ UNCHANGED <<parent, portnum, is_hub, devnum_next, nalloc, db, hubst,
                   port_enabled, lpm, callVars, enumVars>>

InitTree ==
    /\ TreeInit
    /\ EnumInit
    /\ call = NoCall
    /\ db = NoDebounce

NextTree ==
    \/ \E hub \in Devs, port1 \in Ports, hubclass \in BOOLEAN, configured \in BOOLEAN :
          T_connect(hub, port1, hubclass, configured)
    \/ \E hdev \in Devs : T_hub_probe(hdev)
    \/ \E udev \in Devs, new_state \in DeviceStates \ {USB_STATE_ATTACHED} :
          T_set_device_state(udev, new_state, Jiffies)
    \/ \E hub \in Devs, port1 \in Ports :
          T_usb_disconnect(hub, port1, Jiffies)

SpecTree == InitTree /\ [][NextTree]_vars

(***************************************************************************)
(* Claims checked under SpecTree.                                          *)
(***************************************************************************)
\* C2: a call usb_set_device_state(udev, NOTATTACHED) on a device that is not
\* yet NOTATTACHED leaves udev and every one of its N descendants
\* NOTATTACHED (N + 1 devices, N = 0 included).
C2_MarksWholeSubtree ==
    [][(/\ call'.op = "usb_set_device_state"
        /\ call'.new_state = USB_STATE_NOTATTACHED
        /\ state[call'.dev] # USB_STATE_NOTATTACHED)
       => \A d \in Subtree(call'.dev) : state'[d] = USB_STATE_NOTATTACHED]_vars

\* C3: NOTATTACHED is absorbing: no call changes the state or the
\* active_duration of a device object that is NOTATTACHED.
C3_NotattachedAbsorbing ==
    [][\A d \in Devs :
         (alloc[d] /\ state[d] = USB_STATE_NOTATTACHED)
         => (/\ state'[d] = USB_STATE_NOTATTACHED
             /\ active_duration'[d] = active_duration[d])]_vars

\* usb_set_device_state has been called with another target state on a
\* device that was NOTATTACHED (the call would else have set that state)
C3_Witness ==
    /\ call.op = "usb_set_device_state"
    /\ call.new_state = USB_STATE_SUSPENDED
    /\ alloc[call.dev]
    /\ state[call.dev] = USB_STATE_NOTATTACHED

\* C7: once usb_disconnect of a device has returned, the address map holds no
\* bit of the device or of its descendants, and the port pointer it was
\* reached through is NULL.
C7_DisconnectReleasesSubtree ==
    call.op = "usb_disconnect"
    => (/\ devicemap \cap call.addrs = {}
        /\ child[parent[call.dev]][portnum[call.dev]] = NULL)

\* usb_disconnect has returned for a device that had a descendant, each
\* holding an address
C7_Witness ==
    /\ call.op = "usb_disconnect"
    /\ Cardinality({a \in call.addrs : a > 0}) >= 2

(***************************************************************************)
(* SpecDebounce: hub_port_debounce, one iteration of its loop per step.    *)
(* The status of the port is an input of every iteration: the result of    *)
(* hub_port_status, the connection bit of wPortStatus and the              *)
(* connection-change bit of wPortChange.                                   *)
(***************************************************************************)
\* the errors hub_port_status returns
ReadErrors == {"-ENODEV", "-EIO"}

\* the samples kept for the record of a run: those that can add up to
\* HUB_DEBOUNCE_STABLE, and the one they are compared with
HistLen == (HUB_DEBOUNCE_STABLE \div HUB_DEBOUNCE_STEP) + 1

\* stable_time after a sample, one that forgets the connection-change bit
stable_time_after_ignoring_change(d, conn, cchange) ==
    IF conn = d.connection
    THEN IF ~d.must_be_connected \/ d.connection = 1
         THEN d.stable_time + HUB_DEBOUNCE_STEP ELSE d.stable_time
    ELSE 0

\* stable_time after a sample of the loop
stable_time_after(d, conn, cchange) ==
    IF ~cchange /\ conn = d.connection
    THEN IF ~d.must_be_connected \/ d.connection = 1
         THEN d.stable_time + HUB_DEBOUNCE_STEP ELSE d.stable_time
    ELSE 0

\* the last HistLen samples
Remember(hist, sample) ==
    LET h == Append(hist, sample)
    IN IF Len(h) > HistLen THEN Tail(h) ELSE h

\* the call: total_time = 0, stable_time = 0, connection = 0xffff
hub_port_debounce_enter(port1, must_be_connected, toggling, phase) ==
    /\ db.pc = "off"
    /\ db' = [NoDebounce EXCEPT !.pc = "loop", !.port1 = port1,
                                 !.must_be_connected = must_be_connected,
                                 !.toggling = toggling, !.phase = phase]
    /\ UNCHANGED <<treeVars, call, enumVars, hubst, port_enabled, lpm, port_owner, callVars>>

\* one iteration of the loop, up to and including msleep or the return
hub_port_debounce_iter(read, conn, cchange) ==
    /\ db.pc = "loop"
    /\ IF read # "0"
       THEN db' = [db EXCEPT !.pc = "done", !.ret = read, !.read = read]
       ELSE LET match == ~cchange /\ conn = db.connection
                st == stable_time_after(db, conn, cchange)
                stable == match /\ st >= HUB_DEBOUNCE_STABLE
                out == stable \/ db.total_time >= HUB_DEBOUNCE_TIMEOUT
            IN db' = [db EXCEPT
                        !.read = read,
                        !.hist = Remember(@, [conn |-> conn, cchange |-> cchange]),
                        !.portstatus = conn,
                        !.stable_time = st,
                        !.connection = IF match THEN @ ELSE conn,
                        !.total_time = IF out THEN @ ELSE @ + HUB_DEBOUNCE_STEP,
                        !.pc = IF out THEN "done" ELSE "loop",
                        !.ret = IF ~out THEN "none"
                                ELSE IF st < HUB_DEBOUNCE_STABLE THEN "-ETIMEDOUT"
                                ELSE "portstatus"]
    /\ UNCHANGED <<treeVars, call, enumVars, hubst, port_enabled, lpm, port_owner, callVars>>

\* the connection bit of a port that changes it every TogglePeriod ms, at
\* the time of the sample
ToggledBit(t, phase) == ((t + phase) \div TogglePeriod) % 2

\* an iteration on a port that may show anything
DebounceAnyPort ==
    /\ ~db.toggling
    /\ \E read \in {"0"} \cup ReadErrors, conn \in {0, 1}, cchange \in BOOLEAN :
          hub_port_debounce_iter(read, conn, cchange)

\* an iteration on a bouncing port: the change bit is latched by every
\* change of the connection bit since it was last cleared
DebounceBouncingPort ==
    /\ db.toggling
    /\ \E cchange \in BOOLEAN :
          /\ (db.total_time > 0 /\ HUB_DEBOUNCE_STEP >= TogglePeriod) => cchange
          /\ hub_port_debounce_iter("0", ToggledBit(db.total_time, db.phase),
                                    cchange)

InitDebounce ==
    /\ TreeInit
    /\ EnumInit
    /\ call = NoCall
    /\ db = NoDebounce

NextDebounce ==
    \/ \E port1 \in Ports, must \in BOOLEAN :
          hub_port_debounce_enter(port1, must, FALSE, 0)
    \/ \E port1 \in Ports, must \in BOOLEAN, phase \in 0..(2 * TogglePeriod - 1) :
          hub_port_debounce_enter(port1, must, TRUE, phase)
    \/ DebounceAnyPort
    \/ DebounceBouncingPort

SpecDebounce == InitDebounce /\ [][NextDebounce]_vars

(***************************************************************************)
(* Claims checked under SpecDebounce.                                      *)
(***************************************************************************)
\* the samples of a record show a stable connection: HistLen samples, all
\* with the connection bit of the first, none after the first with the
\* connection-change bit
StableSamples(hist) ==
    /\ Len(hist) = HistLen
    /\ \A i \in 2..HistLen : hist[i].conn = hist[1].conn /\ ~hist[i].cchange

\* C8: hub_port_debounce returns a port status only after consecutive
\* samples, 25 ms apart and adding up to 100 ms, that show one value of the
\* connection bit and no connection-change bit, the value being 'connected'
\* when must_be_connected is set; when the reads succeed and it does not
\* return a status it returns -ETIMEDOUT, the total time having reached the
\* timeout; the error of a failed read is returned at once.
C8_DebounceContract ==
    /\ (db.pc = "loop" /\ db.read # "none") => db.read = "0"
    /\ (db.pc = "done") =>
        ( \/ /\ db.read \in ReadErrors
             /\ db.ret = db.read
          \/ /\ db.read = "0"
             /\ db.ret = "portstatus"
             /\ StableSamples(db.hist)
             /\ (db.must_be_connected => db.portstatus = 1)
          \/ /\ db.read = "0"
             /\ db.ret = "-ETIMEDOUT"
             /\ db.total_time >= HUB_DEBOUNCE_TIMEOUT )

\* a debounce that must end connected has returned the status after the
\* connection had first been seen to change
C8_Witness ==
    /\ db.pc = "done"
    /\ ~db.toggling
    /\ db.must_be_connected
    /\ db.ret = "portstatus"
    /\ db.total_time > HUB_DEBOUNCE_STABLE + HUB_DEBOUNCE_STEP

\* C9: on a port whose connection bit changes every 10 ms hub_port_debounce
\* never returns a status: it returns -ETIMEDOUT when its total time is
\* exactly 1500 ms.
C9_BouncingPortTimesOutAt1500 ==
    (db.pc = "done" /\ db.toggling)
    => (db.ret = "-ETIMEDOUT" /\ db.total_time = 1500)

(***************************************************************************)
(* Spec: khubd, a caller of usb_reset_device and the interrupt side.       *)
(* A step runs a context from one blocking point (a lock, a sleep, a       *)
(* transfer) to the next.  Results of transfers are inputs.                *)
(***************************************************************************)
\* SET_CONFIG_TRIES is 2 * (use_both_schemes + 1)
use_both_schemes == 1
SET_CONFIG_TRIES == 2 * (use_both_schemes + 1)

KH == th["khubd"]
RS == th["reset"]

Range(seq) == {seq[k] : k \in 1..Len(seq)}

\* kick_khubd that puts the hub at the head of the list
kick_khubd_at_head(hub, list) ==
    IF ~disconnected[hub] /\ hub \notin Range(list)
    THEN <<hub>> \o list ELSE list

\* kick_khubd without its test of hub->disconnected and of list_empty
kick_khubd_unguarded(hub, list) == Append(list, hub)

\* kick_khubd: hub_event_list afterwards.  list_empty(&hub->event_list) is
\* true when the hub is not linked on the list
kick_khubd(hub, list) ==
    IF ~disconnected[hub] /\ hub \notin Range(list)
    THEN Append(list, hub) ELSE list

\* mutex_lock that does not wait
mutex_available_always(owner) == TRUE

\* mutex_lock returns when the mutex has no owner
mutex_available(owner) == owner = NoThread

\* the link step of hub_port_connect_change without its test of the hub
link_status_unchecked(hdev) == "0"

\* the link step of hub_port_connect_change, under device_state_lock: the
\* status it leaves
link_status(hdev) ==
    IF state[hdev] = USB_STATE_NOTATTACHED THEN "-ENOTCONN" ELSE "0"

\* the port's child pointer holds the device
Linked(udev) ==
    /\ parent[udev] # NULL
    /\ child[parent[udev]][portnum[udev]] = udev

\* the device the resetter holds a reference to
Held == IF RS.pc = "idle" THEN {} ELSE {RS.udev}

\* a transfer to the hub finds it gone
HubGone(hub) ==
    usb_hub_to_struct_hub(hub) = NULL \/ state[hub] = USB_STATE_NOTATTACHED

\* positions of khubd inside an attempt of hub_port_connect_change, its new
\* device allocated
AttemptPcs == {"init_reset", "init_addr", "link", "newdev", "loop"}
\* positions of a context inside hub_port_init
InitPcs == {"init_reset", "init_addr"}

\* the memory of the device objects of a set is freed
FreeDevs(freed, f, v) == [d \in Devs |-> IF d \in freed THEN v ELSE f[d]]

\* the port of a call
PortOf(k) == <<k.hub, k.port1>>

\* hub_port_disable that sends no request
hub_port_disable_without_request(hub, port1, enabled) == enabled

\* hub_port_disable: the enabled ports afterwards.  The request that clears
\* the enable bit is sent only while hub->error is 0
hub_port_disable(hub, port1, enabled) ==
    IF hubst[hub].error = "0" THEN enabled \ {<<hub, port1>>} ELSE enabled

\* usb_disconnect(&hub->ports[port1 - 1]->child) with the hub_disconnect of
\* the hubs below, the new positions being T and the enabled ports E; the
\* ports of a hub go with it (hub_disconnect frees hub->ports)
DoDisconnect(udev, T, E, H) ==
    LET r == usb_disconnect(udev, Jiffies, Held)
        gone == DisconnectSet(udev)
        hubs == {d \in gone : usb_hub_to_struct_hub(d) # NULL}
        freed == {d \in gone : ~r.alloc[d]}
    IN /\ alloc' = r.alloc
       /\ state' = FreeDevs(freed, r.state, USB_STATE_NOTATTACHED)
       /\ active_duration' = FreeDevs(freed, r.active_duration, 0)
       /\ devnum' = FreeDevs(freed, r.devnum, 0)
       /\ devicemap' = r.devicemap
       /\ child' = r.child
       /\ maxchild' = r.maxchild
       /\ parent' = FreeDevs(freed, parent, NULL)
       /\ portnum' = FreeDevs(freed, portnum, 0)
       /\ is_hub' = FreeDevs(freed, is_hub, FALSE)
       /\ hub_event_list' = SelectSeq(hub_event_list, LAMBDA h : h \notin hubs)
       /\ disconnected' = [d \in Devs |-> disconnected[d] \/ d \in hubs]
       /\ th' = T
       /\ port_enabled' = {e \in E : e[1] \notin hubs}
       \* hub_disconnect: the structure of a hub that is gone is freed
       /\ hubst' = [d \in Devs |->
                       IF d \in hubs
                       THEN [H[d] EXCEPT !.change_bits = {},
                                         !.removed_bits = {}]
                       ELSE H[d]]
       /\ UNCHANGED <<devnum_next, nalloc, call, db, lpm, port_owner, callVars,
                      busy_bits, devlock, usb_address0_mutex>>

\* hub_events: the head of hub_event_list is taken off, under hub_event_lock
hub_events_dequeue ==
    /\ KH.pc = "idle"
    /\ hub_event_list # << >>
    /\ hub_event_list' = Tail(hub_event_list)
    /\ th' = [th EXCEPT !["khubd"] =
                IF disconnected[Head(hub_event_list)] THEN Idle
                ELSE [Idle EXCEPT !.pc = "lock", !.hub = Head(hub_event_list)]]
    /\ UNCHANGED <<treeVars, call, db, hubst, port_enabled, lpm, port_owner, callVars, disconnected, busy_bits, devlock,
                   usb_address0_mutex>>

\* hub_events: usb_lock_device(hdev) and the tests that follow it
hub_events_lock ==
    /\ KH.pc = "lock"
    /\ devlock[KH.hub] = NoThread
    /\ IF disconnected[KH.hub]
       THEN /\ th' = [th EXCEPT !["khubd"] = Idle]
            /\ UNCHANGED devlock
       ELSE /\ devlock' = [devlock EXCEPT ![KH.hub] = "khubd"]
            /\ th' = [th EXCEPT !["khubd"].port1 = 1,
                                !["khubd"].pc =
                                   IF state[KH.hub] = USB_STATE_NOTATTACHED
                                   THEN "quiesce" ELSE "port"]
    /\ UNCHANGED <<treeVars, call, db, hubst, port_enabled, lpm, port_owner, callVars, hub_event_list, disconnected, busy_bits,
                   usb_address0_mutex>>

\* hub_events on a hub that is NOTATTACHED: hub_quiesce(hub, HUB_DISCONNECT)
\* disconnects the children, one per step, then the pass ends
hub_events_quiesce ==
    /\ KH.pc = "quiesce"
    /\ IF ChildPorts(KH.hub) = {}
       THEN /\ devlock' = [devlock EXCEPT ![KH.hub] = NoThread]
            /\ th' = [th EXCEPT !["khubd"] = Idle]
            /\ UNCHANGED <<treeVars, call, db, hubst, port_enabled, lpm, port_owner, callVars, hub_event_list, disconnected,
                           busy_bits, usb_address0_mutex>>
       ELSE LET p == CHOOSE q \in ChildPorts(KH.hub) :
                        \A o \in ChildPorts(KH.hub) : q <= o
                udev == child[KH.hub][p]
            IN /\ \A d \in DisconnectSet(udev) : devlock[d] = NoThread
               /\ DoDisconnect(udev, th, port_enabled, hubst)

\* hub_events: one turn of the loop over the ports, up to the call of
\* hub_port_connect_change; after the last port the pass ends
hub_events_port(connect_change) ==
    /\ KH.pc = "port"
    /\ connect_change => ~HubGone(KH.hub)
    \* connect_change = test_bit(i, hub->change_bits), or a change the port
    \* status shows
    /\ (KH.port1 <= NPorts /\ KH.port1 \in hubst[KH.hub].change_bits
        /\ KH.port1 \notin busy_bits[KH.hub]) => connect_change
    /\ IF KH.port1 > NPorts
       THEN /\ devlock' = [devlock EXCEPT ![KH.hub] = NoThread]
            /\ th' = [th EXCEPT !["khubd"] = Idle]
       ELSE /\ th' = IF KH.port1 \in busy_bits[KH.hub] \/ ~connect_change
                     THEN [th EXCEPT !["khubd"].port1 = @ + 1]
                     ELSE [th EXCEPT !["khubd"].pc = "pcc"]
            /\ UNCHANGED devlock
    /\ UNCHANGED <<treeVars, call, db, hubst, port_enabled, lpm, port_owner, callVars, hub_event_list, disconnected, busy_bits,
                   usb_address0_mutex>>

\* a return from hub_port_connect_change after which the loop over the
\* ports takes the same port again
ReturnToPorts_same_port(k) == [k EXCEPT !.pc = "port"]

\* khubd returns from hub_port_connect_change to the loop over the ports
ReturnToPorts(k) ==
    [k EXCEPT !.pc = "port", !.port1 = @ + 1, !.i = 0, !.udev = NULL,
              !.status = "0", !.devnum = 0, !.seen_gone = FALSE]

\* hub_port_connect_change that clears the change bits of all the ports
clear_all_change_bits(H, hub, port1, clear_removed) ==
    [H EXCEPT ![hub].change_bits = {},
              ![hub].removed_bits = IF clear_removed THEN @ \ {port1} ELSE @]

\* hub_port_connect_change after usb_disconnect: clear_bit(port1,
\* hub->change_bits), and clear_bit(port1, hub->removed_bits) when the port
\* status has no connection or the port change has C_CONNECTION
clear_port_bits(H, hub, port1, clear_removed) ==
    [H EXCEPT ![hub].change_bits = @ \ {port1},
              ![hub].removed_bits = IF clear_removed THEN @ \ {port1} ELSE @]

\* hub_port_connect_change goes on to the loop of the attempts: the port
\* status has a connection after the debounce and the removed bit of the
\* port is not set
ToEnumerate(H, hub, port1, connection) ==
    connection /\ port1 \notin H[hub].removed_bits

\* hub_port_connect_change, up to usb_disconnect of the old child or, without
\* one, up to the loop of the attempts
hub_port_connect_change(connection, enabled, clear_removed) ==
    /\ KH.pc = "pcc"
    \* the enable bit of portstatus is set by a port reset only
    /\ enabled => PortOf(KH) \in port_enabled
    /\ LET udev == child[KH.hub][KH.port1]
           H == clear_port_bits(hubst, KH.hub, KH.port1, clear_removed)
           enumerate == ToEnumerate(H, KH.hub, KH.port1, connection)
       IN
       IF udev = NULL
       THEN /\ th' = [th EXCEPT !["khubd"] =
                        IF enumerate THEN [KH EXCEPT !.pc = "alloc", !.i = 0]
                        ELSE ReturnToPorts(KH)]
            /\ hubst' = H
            \* nothing to enumerate: goto done when the port is enabled,
            \* and a port that reads disabled has been disabled by the hub
            \* itself
            /\ port_enabled' =
                  IF enumerate THEN port_enabled
                  ELSE IF enabled
                       THEN hub_port_disable(KH.hub, KH.port1, port_enabled)
                       ELSE port_enabled \ {PortOf(KH)}
            /\ UNCHANGED <<state, active_duration>>
       ELSE IF connection /\ state[udev] # USB_STATE_NOTATTACHED /\ enabled
       THEN /\ devlock[udev] = NoThread
            /\ th' = [th EXCEPT !["khubd"] = ReturnToPorts(KH)]
            /\ hubst' = clear_port_bits(hubst, KH.hub, KH.port1, FALSE)
            /\ UNCHANGED <<state, active_duration, port_enabled>>
       ELSE /\ (connection /\ state[udev] # USB_STATE_NOTATTACHED)
                  => devlock[udev] = NoThread
            /\ LET r == usb_set_device_state(udev, USB_STATE_NOTATTACHED, Jiffies)
               IN /\ state' = r.state
                  /\ active_duration' = r.active_duration
                  /\ th' = [th EXCEPT !["khubd"].pc = "disc"]
            /\ UNCHANGED <<hubst, port_enabled>>
    /\ UNCHANGED <<alloc, devnum, parent, portnum, maxchild, is_hub, child,
                   devicemap, devnum_next, nalloc, call, db, lpm, port_owner,
                   callVars, hub_event_list, disconnected, busy_bits, devlock,
                   usb_address0_mutex>>

\* hub_port_connect_change: usb_disconnect of the old child from its
\* usb_lock_device on, then the debounce and the test of the connection
hub_port_connect_disconnect(connection, clear_removed) ==
    /\ KH.pc = "disc"
    /\ LET udev == child[KH.hub][KH.port1]
           H == clear_port_bits(hubst, KH.hub, KH.port1, clear_removed)
           enumerate == ToEnumerate(H, KH.hub, KH.port1, connection)
       IN /\ \A d \in DisconnectSet(udev) : devlock[d] = NoThread
          \* with nothing to enumerate the port is disabled already or the
          \* call goes to done, hub_port_disable
          /\ DoDisconnect(udev,
                          [th EXCEPT !["khubd"] =
                              IF enumerate
                              THEN [KH EXCEPT !.pc = "alloc", !.i = 0]
                              ELSE ReturnToPorts(KH)],
                          IF enumerate THEN port_enabled
                          ELSE hub_port_disable(KH.hub, KH.port1,
                                                port_enabled),
                          H)

\* hub_port_connect_change: the head of an attempt, from usb_alloc_dev to the
\* mutex_lock of hub_port_init
hub_port_connect_attempt(hubclass) ==
    /\ KH.pc = "alloc"
    /\ IF nalloc >= MaxAlloc
       THEN \* usb_alloc_dev returns NULL: goto done
            /\ th' = [th EXCEPT !["khubd"] = ReturnToPorts(KH)]
            /\ UNCHANGED <<alloc, state, devnum, parent, portnum, is_hub,
                           devicemap, devnum_next, nalloc>>
       ELSE LET udev == RootHub + nalloc + 1
                c == choose_devnum(devicemap, devnum_next)
            IN /\ nalloc' = nalloc + 1
               /\ alloc' = [alloc EXCEPT ![udev] = TRUE]
               /\ state' = [state EXCEPT ![udev] = USB_STATE_POWERED]
               /\ parent' = [parent EXCEPT ![udev] = KH.hub]
               /\ portnum' = [portnum EXCEPT ![udev] = KH.port1]
               /\ is_hub' = [is_hub EXCEPT ![udev] = hubclass]
               /\ devnum' = [devnum EXCEPT ![udev] = c.devnum]
               /\ devicemap' = c.devicemap
               /\ devnum_next' = c.devnum_next
               /\ th' = [th EXCEPT !["khubd"] =
                           IF c.devnum <= 0
                           THEN [KH EXCEPT !.pc = "loop", !.udev = udev,
                                           !.status = "-ENOTCONN"]
                           ELSE [KH EXCEPT !.pc = "init_reset", !.udev = udev,
                                           !.devnum = c.devnum]]
    \* without a device object: goto done, hub_port_disable
    /\ port_enabled' = IF nalloc >= MaxAlloc
                       THEN hub_port_disable(KH.hub, KH.port1, port_enabled)
                       ELSE port_enabled
    /\ UNCHANGED <<maxchild, active_duration, child, call, db, hubst, lpm, port_owner, callVars, hub_event_list,
                   disconnected, busy_bits, devlock, usb_address0_mutex>>

\* a fail path of hub_port_init that leaves udev->devnum as it is
hub_port_init_fail_without_devnum(t, dn) == dn

\* hub_port_init, the label fail after an error: update_devnum(udev, devnum)
\* puts back the value udev->devnum had on entry (hub_port_disable is in the
\* actions)
hub_port_init_fail(t, dn) == [dn EXCEPT ![th[t].udev] = th[t].devnum]

\* a return of hub_port_init that keeps the mutex
mutex_unlock_skipped(owner) == owner

\* mutex_unlock(&usb_address0_mutex) at the label fail, by its owner
mutex_unlock(owner) == NoThread

\* where hub_port_init returns to
AfterInit(t, retval) ==
    IF t = "khubd" THEN (IF retval = "0" THEN "link" ELSE "loop") ELSE "after"

\* hub_port_init: mutex_lock(&usb_address0_mutex), then hub_port_reset with
\* hub_port_finish_reset; when the reset fails, the fail path and the return
hub_port_init_reset(t, retval) ==
    /\ th[t].pc = "init_reset"
    /\ mutex_available(usb_address0_mutex)
    /\ HubGone(th[t].hub) => retval = "-ENODEV"
    /\ LET udev == th[t].udev
           r == IF retval = "0"
                THEN usb_set_device_state(udev, USB_STATE_DEFAULT, Jiffies)
                ELSE IF retval \in {"-ENOTCONN", "-ENODEV"}
                THEN usb_set_device_state(udev, USB_STATE_NOTATTACHED, Jiffies)
                ELSE [state |-> state, active_duration |-> active_duration]
       IN /\ state' = r.state
          /\ active_duration' = r.active_duration
          \* hub_port_finish_reset: update_devnum(udev, 0)
          /\ devnum' = IF retval = "0" THEN [devnum EXCEPT ![udev] = 0]
                       ELSE hub_port_init_fail(t, devnum)
          /\ usb_address0_mutex' = IF retval = "0" THEN t
                                   ELSE mutex_unlock(t)
          /\ th' = [th EXCEPT ![t].status = retval,
                                       ![t].pc = IF retval = "0" THEN "init_addr"
                                                 ELSE AfterInit(t, retval)]
    \* a port reset that succeeds leaves the port enabled; the fail path
    \* calls hub_port_disable
    /\ port_enabled' =
          IF retval = "0"
          THEN port_enabled \cup {<<th[t].hub, th[t].port1>>}
          ELSE hub_port_disable(th[t].hub, th[t].port1, port_enabled)
    /\ UNCHANGED <<alloc, parent, portnum, maxchild, is_hub, child, devicemap,
                   devnum_next, nalloc, call, db, hubst, lpm, port_owner, callVars, hub_event_list, disconnected,
                   busy_bits, devlock>>

\* hub_port_init from the first descriptor read to the return: the second
\* hub_port_reset, hub_set_address and the descriptor reads
hub_port_init_address(t, outcome) ==
    /\ th[t].pc = "init_addr"
    /\ LET udev == th[t].udev
           \* hub_set_address refuses an address <= 1 and a device that is
           \* not in the DEFAULT state (-EINVAL, an error like -EPROTO to
           \* the callers)
           retval == IF outcome = "0" /\ ~(th[t].devnum > 1
                                          /\ state[udev] = USB_STATE_DEFAULT)
                     THEN "-EPROTO" ELSE outcome
           r == IF retval = "0"
                THEN usb_set_device_state(udev, USB_STATE_ADDRESS, Jiffies)
                ELSE IF retval = "-ENOTCONN"
                THEN usb_set_device_state(udev, USB_STATE_NOTATTACHED, Jiffies)
                ELSE [state |-> state, active_duration |-> active_duration]
       IN /\ state' = r.state
          /\ active_duration' = r.active_duration
          \* hub_set_address: update_devnum(udev, devnum)
          /\ devnum' = IF retval = "0"
                       THEN [devnum EXCEPT ![udev] = th[t].devnum]
                       ELSE hub_port_init_fail(t, devnum)
          /\ th' = [th EXCEPT ![t].status = retval,
                                       ![t].pc = AfterInit(t, retval)]
    /\ usb_address0_mutex' = mutex_unlock(usb_address0_mutex)
    \* the fail path calls hub_port_disable
    /\ port_enabled' =
          IF th'[t].status = "0" THEN port_enabled
          ELSE hub_port_disable(th[t].hub, th[t].port1, port_enabled)
    /\ UNCHANGED <<alloc, parent, portnum, maxchild, is_hub, child, devicemap,
                   devnum_next, nalloc, call, db, hubst, lpm, port_owner, callVars, hub_event_list,
                   disconnected, busy_bits, devlock>>

\* hub_port_connect_change after hub_port_init has succeeded: the test of a
\* bus-powered hub, then the link of the child under device_state_lock
hub_port_connect_link(bus_powered) ==
    /\ KH.pc = "link"
    /\ IF is_hub[KH.udev] /\ bus_powered
       THEN /\ th' = [th EXCEPT !["khubd"].pc = "loop",
                                !["khubd"].status = "-ENOTCONN"]
            /\ UNCHANGED child
       ELSE LET status == link_status(KH.hub) IN
            /\ child' = IF status = "0"
                        THEN [child EXCEPT ![KH.hub][KH.port1] = KH.udev]
                        ELSE child
            /\ th' = [th EXCEPT
                        !["khubd"].status = status,
                        !["khubd"].seen_gone =
                            state[KH.hub] = USB_STATE_NOTATTACHED,
                        !["khubd"].pc = IF status = "0" THEN "newdev" ELSE "loop"]
    \* loop_disable: hub_port_disable
    /\ port_enabled' =
          IF (is_hub[KH.udev] /\ bus_powered) \/ link_status(KH.hub) # "0"
          THEN hub_port_disable(KH.hub, KH.port1, port_enabled)
          ELSE port_enabled
    /\ UNCHANGED <<alloc, state, devnum, parent, portnum, maxchild, is_hub,
                   active_duration, devicemap, devnum_next, nalloc, call, db, hubst, lpm, port_owner, callVars,
                   hub_event_list, disconnected, busy_bits, devlock,
                   usb_address0_mutex>>

\* hub_port_connect_change: usb_new_device, whose driver binding configures
\* the device and, for a hub-class device, runs hub_probe (hub_configure sets
\* maxchild, hub_activate ends with kick_khubd); when usb_new_device fails
\* the child pointer is cleared
hub_port_connect_new_device(status) ==
    /\ KH.pc = "newdev"
    /\ LET udev == KH.udev
           err == status # "0"
           r == IF err
                THEN usb_set_device_state(udev, USB_STATE_NOTATTACHED, Jiffies)
                ELSE usb_set_device_state(udev, USB_STATE_CONFIGURED, Jiffies)
           bound == ~err /\ is_hub[udev]
                         /\ r.state[udev] = USB_STATE_CONFIGURED
       IN /\ state' = r.state
          /\ active_duration' = r.active_duration
          /\ child' = IF err THEN [child EXCEPT ![KH.hub][KH.port1] = NULL]
                             ELSE child
          /\ maxchild' = IF bound THEN [maxchild EXCEPT ![udev] = NPorts]
                                  ELSE maxchild
          /\ hub_event_list' = IF bound THEN kick_khubd(udev, hub_event_list)
                                        ELSE hub_event_list
          /\ th' = [th EXCEPT !["khubd"] =
                               IF err THEN [KH EXCEPT !.pc = "loop",
                                                      !.status = status]
                                      ELSE ReturnToPorts(KH)]
    \* loop_disable: hub_port_disable
    /\ port_enabled' = IF status # "0"
                       THEN hub_port_disable(KH.hub, KH.port1, port_enabled)
                       ELSE port_enabled
    /\ UNCHANGED <<alloc, devnum, parent, portnum, is_hub, devicemap,
                   devnum_next, nalloc, call, db, hubst, lpm, port_owner, callVars, disconnected,
                   busy_bits, devlock, usb_address0_mutex>>

\* the loop of the attempts that ends after any failed attempt
loop_ends_after_any_failure(status, i) == TRUE

\* the loop of the attempts without its bound
loop_ends_by_status_only(status, i) == status \in {"-ENOTCONN", "-ENOTSUPP"}

\* the end of the loop of the attempts: if ((status == -ENOTCONN) ||
\* (status == -ENOTSUPP)) break, or the last of the SET_CONFIG_TRIES
loop_ends(status, i) ==
    \/ status \in {"-ENOTCONN", "-ENOTSUPP"}
    \/ i + 1 >= SET_CONFIG_TRIES

\* hub_port_connect_change: the labels loop_disable and loop, the end of the
\* attempt; usb_put_dev frees the device
hub_port_connect_loop ==
    /\ KH.pc = "loop"
    /\ LET udev == KH.udev
           rel == release_devnum(devnum[udev], devicemap)
       IN /\ devicemap' = rel.devicemap
          /\ alloc' = [alloc EXCEPT ![udev] = FALSE]
          /\ state' = FreeDevs({udev}, state, USB_STATE_NOTATTACHED)
          /\ devnum' = FreeDevs({udev}, devnum, 0)
          /\ parent' = FreeDevs({udev}, parent, NULL)
          /\ portnum' = FreeDevs({udev}, portnum, 0)
          /\ is_hub' = FreeDevs({udev}, is_hub, FALSE)
    /\ th' = [th EXCEPT !["khubd"] =
                IF loop_ends(KH.status, KH.i)
                THEN ReturnToPorts(KH)
                ELSE [KH EXCEPT !.pc = "alloc", !.i = @ + 1, !.udev = NULL,
                                !.status = "0", !.devnum = 0]]
    \* after the last attempt: done, hub_port_disable
    /\ port_enabled' =
          IF loop_ends(KH.status, KH.i)
          THEN hub_port_disable(KH.hub, KH.port1, port_enabled)
          ELSE port_enabled
    /\ UNCHANGED <<maxchild, active_duration, child, devnum_next, nalloc, call,
                   db, hubst, lpm, port_owner, callVars, hub_event_list, disconnected, busy_bits, devlock,
                   usb_address0_mutex>>

\* a driver or usbfs takes a reference to a registered device, to reset it
reset_caller_get(udev) ==
    /\ RS.pc = "idle"
    /\ udev # RootHub
    /\ alloc[udev]
    /\ Linked(udev)
    /\ KH.udev # udev
    /\ th' = [th EXCEPT !["reset"] = [Idle EXCEPT !.pc = "held", !.udev = udev]]
    /\ UNCHANGED <<treeVars, call, db, hubst, port_enabled, lpm, port_owner, callVars, hub_event_list, disconnected, busy_bits,
                   devlock, usb_address0_mutex>>

\* the resetter drops its reference: the last one of a device that has been
\* disconnected
ResetCallerPut(newstate, newdur) ==
    LET udev == RS.udev
        freed == IF Linked(udev) THEN {} ELSE {udev}
    IN /\ alloc' = FreeDevs(freed, alloc, FALSE)
       /\ state' = FreeDevs(freed, newstate, USB_STATE_NOTATTACHED)
       /\ active_duration' = FreeDevs(freed, newdur, 0)
       /\ devnum' = FreeDevs(freed, devnum, 0)
       /\ parent' = FreeDevs(freed, parent, NULL)
       /\ portnum' = FreeDevs(freed, portnum, 0)
       /\ is_hub' = FreeDevs(freed, is_hub, FALSE)

\* usb_reset_device and usb_reset_and_verify_device up to the first
\* hub_port_init, the caller taking the device lock first; or the caller
\* gives up
usb_reset_device(give_up) ==
    /\ RS.pc = "held"
    /\ LET udev == RS.udev IN
       IF give_up
       THEN /\ ResetCallerPut(state, active_duration)
            /\ th' = [th EXCEPT !["reset"] = Idle]
            /\ UNCHANGED <<busy_bits, devlock>>
       ELSE /\ devlock[udev] = NoThread
            /\ IF \/ state[udev] = USB_STATE_NOTATTACHED
                  \/ state[udev] = USB_STATE_SUSPENDED
                  \/ parent[udev] = NULL
                  \/ usb_hub_to_struct_hub(parent[udev]) = NULL
               THEN /\ ResetCallerPut(state, active_duration)
                    /\ th' = [th EXCEPT !["reset"] = Idle]
                    /\ UNCHANGED <<busy_bits, devlock>>
               ELSE /\ devlock' = [devlock EXCEPT ![udev] = "reset"]
                    /\ busy_bits' = [busy_bits EXCEPT ![parent[udev]] =
                                        @ \cup {portnum[udev]}]
                    /\ th' = [th EXCEPT !["reset"] =
                                [RS EXCEPT !.pc = "init_reset",
                                           !.hub = parent[udev],
                                           !.port1 = portnum[udev],
                                           !.i = 0,
                                           !.devnum = devnum[udev]]]
                    /\ UNCHANGED <<alloc, state, active_duration, devnum,
                                   parent, portnum, is_hub>>
    /\ UNCHANGED <<maxchild, child, devicemap, devnum_next, nalloc, call, db, hubst, port_enabled, lpm, port_owner, callVars,
                   hub_event_list, disconnected, usb_address0_mutex>>

\* usb_reset_and_verify_device after a hub_port_init: the next try, or the
\* end of the loop, the busy bit cleared, the configuration restored or the
\* port logically disconnected; the caller then unlocks and drops the device
usb_reset_after_init ==
    /\ RS.pc = "after"
    /\ IF RS.status \notin {"0", "-ENOTCONN", "-ENODEV"}
          /\ RS.i + 1 < SET_CONFIG_TRIES
       THEN /\ th' = [th EXCEPT !["reset"].pc = "init_reset",
                                !["reset"].i = @ + 1,
                                !["reset"].devnum = devnum[RS.udev]]
            /\ UNCHANGED <<alloc, state, active_duration, devnum, parent,
                           portnum, is_hub, busy_bits, devlock, hub_event_list>>
       ELSE LET hub == RS.hub
                there == usb_hub_to_struct_hub(hub) # NULL
                c == IF there THEN child[hub][RS.port1] ELSE NULL
                r == IF RS.status = "0"
                     THEN usb_set_device_state(RS.udev, USB_STATE_CONFIGURED,
                                               Jiffies)
                     \* re_enumerate: hub_port_logical_disconnect
                     ELSE IF c # NULL
                          THEN usb_set_device_state(c, USB_STATE_NOTATTACHED,
                                                    Jiffies)
                          ELSE [state |-> state,
                                active_duration |-> active_duration]
            IN /\ busy_bits' = [busy_bits EXCEPT ![hub] = @ \ {RS.port1}]
               /\ hub_event_list' =
                     IF RS.status # "0" /\ there
                     THEN kick_khubd(hub, hub_event_list) ELSE hub_event_list
               /\ devlock' = [devlock EXCEPT ![RS.udev] = NoThread]
               /\ ResetCallerPut(r.state, r.active_duration)
               /\ th' = [th EXCEPT !["reset"] = Idle]
    \* re_enumerate: hub_port_logical_disconnect calls hub_port_disable
    /\ port_enabled' =
          IF /\ ~(RS.status \notin {"0", "-ENOTCONN", "-ENODEV"}
                  /\ RS.i + 1 < SET_CONFIG_TRIES)
             /\ RS.status # "0"
             /\ usb_hub_to_struct_hub(RS.hub) # NULL
          THEN hub_port_disable(RS.hub, RS.port1, port_enabled)
          ELSE port_enabled
    \* and sets the change bit of the port
    /\ hubst' =
          IF /\ ~(RS.status \notin {"0", "-ENOTCONN", "-ENODEV"}
                  /\ RS.i + 1 < SET_CONFIG_TRIES)
             /\ RS.status # "0"
             /\ usb_hub_to_struct_hub(RS.hub) # NULL
          THEN [hubst EXCEPT ![RS.hub].change_bits = @ \cup {RS.port1}]
          ELSE hubst
    /\ UNCHANGED <<maxchild, child, devicemap, devnum_next, nalloc, call, db,
                   lpm, port_owner, callVars, disconnected, usb_address0_mutex>>

\* hub_irq on the completion of the status URB with data
hub_irq(hub) ==
    /\ alloc[hub]
    /\ usb_hub_to_struct_hub(hub) # NULL
    /\ hub_event_list' = kick_khubd(hub, hub_event_list)
    /\ UNCHANGED <<treeVars, call, db, hubst, port_enabled, lpm, port_owner, callVars, disconnected, busy_bits, devlock,
                   usb_address0_mutex, th>>

\* usb_remove_device: hub_port_logical_disconnect of the port of a device
usb_remove_device(udev, request_ok) ==
    /\ alloc[udev]
    /\ parent[udev] # NULL
    /\ Linked(udev)
    /\ KH.udev # udev
    /\ usb_hub_to_struct_hub(parent[udev]) # NULL
    /\ LET r == usb_set_device_state(udev, USB_STATE_NOTATTACHED, Jiffies) IN
          /\ state' = r.state
          /\ active_duration' = r.active_duration
          /\ th' = th
    /\ hub_event_list' = kick_khubd(parent[udev], hub_event_list)
    \* hub_port_logical_disconnect calls hub_port_disable, which logs the
    \* failure of its request to the hub and goes on
    /\ port_enabled' = IF request_ok
                       THEN hub_port_disable(parent[udev], portnum[udev],
                                             port_enabled)
                       ELSE port_enabled
    \* set_bit(udev->portnum, hub->removed_bits), and set_bit(port1,
    \* hub->change_bits) in hub_port_logical_disconnect
    /\ hubst' = [hubst EXCEPT
                    ![parent[udev]].removed_bits = @ \cup {portnum[udev]},
                    ![parent[udev]].change_bits = @ \cup {portnum[udev]}]
    /\ UNCHANGED <<alloc, devnum, parent, portnum, maxchild, is_hub, child,
                   devicemap, devnum_next, nalloc, call, db, lpm, port_owner,
                   callVars, disconnected, busy_bits, devlock,
                   usb_address0_mutex>>

InitResults == {"0", "-ENOTCONN", "-ENODEV", "-EPROTO"}
AddressResults == {"0", "-ENOTCONN", "-ENODEV", "-EPROTO"}
\* what usb_new_device returns: -ENOTSUPP for a device that is not supported
NewDeviceResults == {"0", "-EPROTO", "-ENOTSUPP"}

Init ==
    /\ TreeInit
    /\ EnumInit
    /\ call = NoCall
    /\ db = NoDebounce

Next ==
    \/ hub_events_dequeue
    \/ hub_events_lock
    \/ hub_events_quiesce
    \/ \E connect_change \in BOOLEAN : hub_events_port(connect_change)
    \/ \E connection \in BOOLEAN, enabled \in BOOLEAN,
          clear_removed \in BOOLEAN :
          hub_port_connect_change(connection, enabled, clear_removed)
    \/ \E connection \in BOOLEAN, clear_removed \in BOOLEAN :
          hub_port_connect_disconnect(connection, clear_removed)
    \/ \E hubclass \in BOOLEAN : hub_port_connect_attempt(hubclass)
    \/ \E t \in Threads, retval \in InitResults : hub_port_init_reset(t, retval)
    \/ \E t \in Threads, outcome \in AddressResults :
          hub_port_init_address(t, outcome)
    \/ \E bus_powered \in BOOLEAN : hub_port_connect_link(bus_powered)
    \/ \E status \in NewDeviceResults : hub_port_connect_new_device(status)
    \/ hub_port_connect_loop
    \/ \E udev \in Devs : reset_caller_get(udev)
    \/ \E give_up \in BOOLEAN : usb_reset_device(give_up)
    \/ usb_reset_after_init
    \/ \E hub \in Devs : hub_irq(hub)

Spec == Init /\ [][Next]_vars

\* khubd alone with the interrupt handler and usb_remove_device, which sets
\* the removed and the change bit of a port behind khubd's back
NextPorts ==
    \/ hub_events_dequeue
    \/ hub_events_lock
    \/ hub_events_quiesce
    \/ \E connect_change \in BOOLEAN : hub_events_port(connect_change)
    \/ \E connection \in BOOLEAN, enabled \in BOOLEAN,
          clear_removed \in BOOLEAN :
          hub_port_connect_change(connection, enabled, clear_removed)
    \/ \E connection \in BOOLEAN, clear_removed \in BOOLEAN :
          hub_port_connect_disconnect(connection, clear_removed)
    \/ \E hubclass \in BOOLEAN : hub_port_connect_attempt(hubclass)
    \/ \E t \in Threads, retval \in InitResults : hub_port_init_reset(t, retval)
    \/ \E t \in Threads, outcome \in AddressResults :
          hub_port_init_address(t, outcome)
    \/ \E bus_powered \in BOOLEAN : hub_port_connect_link(bus_powered)
    \/ \E status \in NewDeviceResults : hub_port_connect_new_device(status)
    \/ hub_port_connect_loop
    \/ \E hub \in Devs : hub_irq(hub)
    \/ \E udev \in Devs, request_ok \in BOOLEAN :
          usb_remove_device(udev, request_ok)

SpecPorts == Init /\ [][NextPorts]_vars

(***************************************************************************)
(* Claims checked under Spec.                                              *)
(***************************************************************************)
\* the address a device holds: udev->devnum, or, while hub_port_init has set
\* udev->devnum to 0 after the port reset, the devnum hub_port_init has saved
HeldAddress(d) ==
    IF devnum[d] > 0 THEN devnum[d]
    ELSE IF \E t \in Threads : /\ th[t].pc = "init_addr"
                               /\ th[t].udev = d
                               /\ th[t].devnum > 0
    THEN th[CHOOSE t \in Threads : th[t].pc = "init_addr" /\ th[t].udev = d].devnum
    ELSE 0

\* C1: no two devices that hold an address have the same one, every address
\* held has its bit set in the address map of the bus and every set bit of
\* the map is the address of exactly one device.
C1_AddressesUnique ==
    /\ \A d, e \in Devs :
          (alloc[d] /\ alloc[e] /\ d # e /\ HeldAddress(d) > 0)
          => HeldAddress(d) # HeldAddress(e)
    /\ \A d \in Devs :
          (alloc[d] /\ HeldAddress(d) > 0) => HeldAddress(d) \in devicemap
    /\ \A b \in devicemap :
          Cardinality({d \in Devs : alloc[d] /\ HeldAddress(d) = b}) = 1

\* two devices below the root hub hold an address, one of them inside
\* hub_port_init with its devnum at 0
C1_Witness ==
    /\ Cardinality({d \in Devs \ {RootHub} : alloc[d] /\ HeldAddress(d) > 0}) = 2
    /\ \E d \in Devs : alloc[d] /\ devnum[d] = 0 /\ HeldAddress(d) > 0

\* C5: at most one execution of hub_port_init is between its port reset and
\* its return, and at most one device has devnum 0 in the DEFAULT state.
C5_AddressZeroExclusive ==
    /\ Cardinality({t \in Threads : th[t].pc = "init_addr"}) <= 1
    /\ Cardinality({d \in Devs : /\ alloc[d]
                                 /\ devnum[d] = 0
                                 /\ state[d] = USB_STATE_DEFAULT}) <= 1

\* one context is inside hub_port_init after its port reset, its device at
\* devnum 0 in the DEFAULT state, while the other waits for the mutex
C5_Witness ==
    \E t, u \in Threads :
        /\ t # u
        /\ th[t].pc = "init_addr"
        /\ usb_address0_mutex = t
        /\ devnum[th[t].udev] = 0
        /\ state[th[t].udev] = USB_STATE_DEFAULT
        /\ th[u].pc = "init_reset"

\* C6: khubd holds at most one hub at a time, and no two runs of
\* hub_port_init are in progress on the same port of the same hub.
C6_OneEnumerationPerPort ==
    /\ Cardinality({d \in Devs : devlock[d] = "khubd"}) <= 1
    /\ \A t, u \in Threads :
          (t # u /\ th[t].pc \in InitPcs /\ th[u].pc \in InitPcs)
          => <<th[t].hub, th[t].port1>> # <<th[u].hub, th[u].port1>>

\* C10, as stated: while khubd is in an attempt of hub_port_connect_change on
\* a hub whose device is NOTATTACHED, the new device is not linked as the
\* child of the port and not handed to usb_new_device, a finished attempt has
\* the status -ENOTCONN and no attempt follows.
C10_HubGoneEndsEnumeration ==
    (KH.pc \in AttemptPcs \cup {"alloc"}
     /\ state[KH.hub] = USB_STATE_NOTATTACHED)
    => (/\ KH.pc # "newdev"
        /\ KH.udev # NULL => child[KH.hub][KH.port1] # KH.udev
        /\ KH.pc = "loop" => KH.status = "-ENOTCONN"
        /\ KH.pc = "alloc" => KH.i = 0)

\* C10, amended: when the hub's device is NOTATTACHED at the link step that
\* follows a successful hub_port_init, the new device is neither linked nor
\* handed to usb_new_device and the attempt ends with -ENOTCONN, the status
\* after which no attempt follows; a call makes at most SET_CONFIG_TRIES
\* attempts.
C10_HubGoneAtLinkEndsEnumeration ==
    /\ KH.seen_gone
       => (/\ KH.pc = "loop"
           /\ KH.status = "-ENOTCONN"
           /\ child[KH.hub][KH.port1] # KH.udev)
    /\ KH.i < SET_CONFIG_TRIES

\* the link step has found the hub's device NOTATTACHED
C10_Witness ==
    /\ KH.seen_gone
    /\ state[KH.hub] = USB_STATE_NOTATTACHED
    /\ state[KH.udev] = USB_STATE_ADDRESS

(***************************************************************************)
(* SpecQueue: hub_event_list.  kick_khubd is called from hub_irq,          *)
(* usb_wakeup_notification, hub_activate and hub_port_logical_disconnect;  *)
(* khubd takes the hubs off the list; hub_disconnect runs in the context   *)
(* that unbinds the hub driver, which holds the lock of the hub's device.  *)
(* The tree is built by T_connect.                                         *)
(***************************************************************************)
\* the context that unbinds the hub driver
Unbinder == "unbind"

\* a call of kick_khubd, and whether it found hub->disconnected set
KickCall(op, hub) ==
    [NoCall EXCEPT !.op = op, !.dev = hub, !.disconnected = disconnected[hub]]

\* hub_probe of a configured hub-class device: hub_configure sets maxchild,
\* hub_activate ends with kick_khubd
Q_hub_probe(hdev) ==
    /\ alloc[hdev]
    /\ is_hub[hdev]
    /\ state[hdev] = USB_STATE_CONFIGURED
    /\ maxchild[hdev] = 0
    /\ ~disconnected[hdev]
    /\ devlock[hdev] = NoThread
    /\ maxchild' = [maxchild EXCEPT ![hdev] = NPorts]
    /\ hub_event_list' = kick_khubd(hdev, hub_event_list)
    /\ call' = KickCall("hub_activate", hdev)
    /\ UNCHANGED <<alloc, state, devnum, parent, portnum, is_hub,
                   active_duration, child, devicemap, devnum_next, nalloc, db, hubst, port_enabled, lpm, port_owner, callVars,
                   disconnected, busy_bits, devlock, usb_address0_mutex, th>>

\* hub_irq on the completion of the status URB, which is submitted from
\* hub_activate until the hub_quiesce of hub_disconnect kills it
Q_hub_irq(hub) ==
    /\ alloc[hub]
    /\ maxchild[hub] > 0
    /\ hub_event_list' = kick_khubd(hub, hub_event_list)
    /\ call' = KickCall("hub_irq", hub)
    /\ UNCHANGED <<treeVars, db, hubst, port_enabled, lpm, port_owner, callVars, disconnected, busy_bits, devlock,
                   usb_address0_mutex, th>>

\* usb_wakeup_notification(hdev, portnum), called by the host controller
\* driver
Q_usb_wakeup_notification(hdev) ==
    /\ alloc[hdev]
    /\ usb_hub_to_struct_hub(hdev) # NULL
    /\ hub_event_list' = kick_khubd(hdev, hub_event_list)
    /\ call' = KickCall("usb_wakeup_notification", hdev)
    /\ UNCHANGED <<treeVars, db, hubst, port_enabled, lpm, port_owner, callVars, disconnected, busy_bits, devlock,
                   usb_address0_mutex, th>>

\* hub_port_logical_disconnect(hub, port1): hub_port_disable with set_state,
\* then kick_khubd
Q_hub_port_logical_disconnect(hub, port1) ==
    /\ alloc[hub]
    /\ usb_hub_to_struct_hub(hub) # NULL
    /\ port1 <= maxchild[hub]
    /\ LET r == IF child[hub][port1] # NULL
                THEN usb_set_device_state(child[hub][port1],
                                          USB_STATE_NOTATTACHED, Jiffies)
                ELSE [state |-> state, active_duration |-> active_duration]
       IN /\ state' = r.state
          /\ active_duration' = r.active_duration
    /\ hub_event_list' = kick_khubd(hub, hub_event_list)
    /\ call' = KickCall("hub_port_logical_disconnect", hub)
    /\ UNCHANGED <<alloc, devnum, parent, portnum, maxchild, is_hub, child,
                   devicemap, devnum_next, nalloc, db, hubst, port_enabled, lpm, port_owner, callVars, disconnected, busy_bits,
                   devlock, usb_address0_mutex, th>>

\* hub_disconnect up to spin_unlock_irq(&hub_event_lock): the hub is taken
\* off hub_event_list and hub->disconnected is set
Q_hub_disconnect_begin(hub) ==
    /\ alloc[hub]
    /\ usb_hub_to_struct_hub(hub) # NULL
    /\ ~disconnected[hub]
    /\ devlock[hub] = NoThread
    /\ devlock' = [devlock EXCEPT ![hub] = Unbinder]
    /\ hub_event_list' = SelectSeq(hub_event_list, LAMBDA h : h # hub)
    /\ disconnected' = [disconnected EXCEPT ![hub] = TRUE]
    /\ call' = NoCall
    /\ UNCHANGED <<treeVars, db, hubst, port_enabled, lpm, port_owner, callVars, busy_bits, usb_address0_mutex, th>>

\* hub_disconnect: hub_quiesce(hub, HUB_DISCONNECT) disconnects the children,
\* one per step
Q_hub_disconnect_quiesce(hub) ==
    /\ devlock[hub] = Unbinder
    /\ ChildPorts(hub) # {}
    /\ LET p == CHOOSE q \in ChildPorts(hub) :
                    \A o \in ChildPorts(hub) : q <= o
           udev == child[hub][p]
       IN /\ \A d \in DisconnectSet(udev) : devlock[d] = NoThread
          /\ DoDisconnect(udev, th, port_enabled, hubst)

\* hub_disconnect after hub_quiesce: maxchild is set to 0 under
\* device_state_lock, and the caller unlocks the device
Q_hub_disconnect_end(hub) ==
    /\ devlock[hub] = Unbinder
    /\ ChildPorts(hub) = {}
    /\ maxchild' = [maxchild EXCEPT ![hub] = 0]
    /\ devlock' = [devlock EXCEPT ![hub] = NoThread]
    /\ call' = NoCall
    /\ UNCHANGED <<alloc, state, devnum, parent, portnum, is_hub,
                   active_duration, child, devicemap, devnum_next, nalloc, db, hubst, port_enabled, lpm, port_owner, callVars,
                   hub_event_list, disconnected, busy_bits,
                   usb_address0_mutex, th>>

InitQueue ==
    /\ TreeInit
    /\ EnumInit
    /\ call = NoCall
    /\ db = NoDebounce

NextQueue ==
    \/ \E hub \in Devs, port1 \in Ports, hubclass \in BOOLEAN :
          T_connect(hub, port1, hubclass, TRUE)
    \/ \E hdev \in Devs : Q_hub_probe(hdev)
    \/ \E hub \in Devs : Q_hub_irq(hub)
    \/ \E hdev \in Devs : Q_usb_wakeup_notification(hdev)
    \/ \E hub \in Devs, port1 \in Ports :
          Q_hub_port_logical_disconnect(hub, port1)
    \/ hub_events_dequeue
    \/ hub_events_lock
    \/ hub_events_quiesce
    \/ hub_events_port(FALSE)
    \/ \E hub \in Devs : Q_hub_disconnect_begin(hub)
    \/ \E hub \in Devs : Q_hub_disconnect_quiesce(hub)
    \/ \E hub \in Devs : Q_hub_disconnect_end(hub)

SpecQueue == InitQueue /\ [][NextQueue]_vars

(***************************************************************************)
(* Claims checked under SpecQueue.                                         *)
(***************************************************************************)
\* C4: a hub is linked on hub_event_list at most once, and a hub whose
\* disconnected flag is set is not on the list.
C4_QueuedAtMostOnce ==
    /\ \A j, k \in 1..Len(hub_event_list) :
          j # k => hub_event_list[j] # hub_event_list[k]
    /\ \A h \in Range(hub_event_list) : ~disconnected[h]

\* hub_irq has called kick_khubd for a hub whose disconnected flag
\* hub_disconnect had set, while another hub is on the list
C4_Witness ==
    /\ call.op = "hub_irq"
    /\ call.disconnected
    /\ hub_event_list # << >>

(***************************************************************************)
(* Claims about one call of hub_port_connect_change, checked under Spec.   *)
(***************************************************************************)
\* the addresses 1..127 without a bit in a map
FreeAddresses(map) == (1..(DevMapBits - 1)) \ map

\* the least element of a set of numbers that is not empty
Least(S) == CHOOSE a \in S : \A b \in S : a <= b

\* the first free address at or after the position next, else the lowest
\* free address, else 0
RoundRobinAddress(map, next) ==
    IF \E a \in FreeAddresses(map) : a >= next
    THEN Least({a \in FreeAddresses(map) : a >= next})
    ELSE IF FreeAddresses(map) # {} THEN Least(FreeAddresses(map)) ELSE 0

\* the step in which usb_new_device succeeds in the first attempt of a call
\* of hub_port_connect_change, every operation of the call having succeeded
FirstAttemptSucceeds ==
    /\ KH.pc = "newdev"
    /\ KH.i = 0
    /\ th'["khubd"].pc # "newdev"
    /\ state'[KH.udev] = USB_STATE_CONFIGURED

\* what every such call does: it returns after this one usb_new_device, the
\* device is the child of the port and names the port as its parent port
OneDeviceOnThePort ==
    /\ th'["khubd"].pc = "port"
    /\ th'["khubd"].hub = KH.hub
    /\ child'[KH.hub][KH.port1] = KH.udev
    /\ parent'[KH.udev] = KH.hub
    /\ portnum'[KH.udev] = KH.port1
    /\ devnum'[KH.udev] > 0
    /\ \A d \in Devs \ {KH.udev} : alloc'[d] => devnum'[d] # devnum'[KH.udev]

\* C11, as stated: a call of hub_port_connect_change in which every
\* operation succeeds hands exactly one device to usb_new_device, the device's
\* parent port is the port of the call and its address is the lowest free
\* nonzero address of the bus.
C11_OneDeviceLowestAddress ==
    [][FirstAttemptSucceeds
       => (/\ OneDeviceOnThePort
           /\ devnum'[KH.udev] =
                 Least(FreeAddresses(devicemap') \cup {devnum'[KH.udev]}))]_vars

\* C11, amended: the address is the one choose_devnum gave in this attempt,
\* the first free address at or after bus->devnum_next, or the lowest free
\* address when there is none.
C11_OneDeviceRoundRobinAddress ==
    [][/\ FirstAttemptSucceeds
          => (OneDeviceOnThePort /\ devnum'[KH.udev] = KH.devnum)
       /\ (KH.pc = "alloc" /\ th'["khubd"].pc = "init_reset")
          => th'["khubd"].devnum = RoundRobinAddress(devicemap, devnum_next)]_vars

\* the first attempt of a call has linked a device whose address is not the
\* lowest free one, and hands it to usb_new_device
C11_Witness ==
    /\ KH.pc = "newdev"
    /\ KH.i = 0
    /\ child[KH.hub][KH.port1] = KH.udev
    /\ devnum[KH.udev] = 3
    /\ 2 \notin devicemap

\* the devices that have been linked to the port khubd works on and still
\* exist, other than the device of the present attempt
FormerChildren ==
    {d \in Devs \ {KH.udev} :
        alloc[d] /\ parent[d] = KH.hub /\ portnum[d] = KH.port1}

\* C12: a port has at most one child: from the allocation of a new device
\* to its link the child pointer of the port is NULL and no former child of
\* the port holds an address; usb_new_device gets the device that is linked;
\* no device is the child of two ports.
C12_OneChildPerPort ==
    /\ KH.pc \in {"alloc", "init_reset", "init_addr", "link"}
       => (/\ child[KH.hub][KH.port1] = NULL
           /\ \A d \in FormerChildren : HeldAddress(d) = 0)
    /\ KH.pc = "newdev" => child[KH.hub][KH.port1] = KH.udev
    /\ \A d \in Devs : \A h \in Devs : \A q \in Ports :
          (d # NULL /\ child[h][q] = d)
          => (alloc[d] /\ parent[d] = h /\ portnum[d] = q)

\* a new device is about to be linked to a port whose former child, now
\* disconnected, still exists because a driver holds it
C12_Witness ==
    /\ KH.pc = "link"
    /\ FormerChildren # {}
    /\ \A d \in FormerChildren : devnum[d] = -1

\* an attempt of khubd fails after its port reset: hub_port_init, the test
\* of a bus-powered hub, the link or usb_new_device
AttemptFails ==
    /\ KH.pc \in {"init_reset", "init_addr", "link", "newdev"}
    /\ th'["khubd"].pc = "loop"

\* khubd ends an attempt at the label loop
AttemptEnds == KH.pc = "loop" /\ th'["khubd"].pc # "loop"

\* khubd returns from a call of hub_port_connect_change that has enumerated
\* no device
FailedCallReturns ==
    /\ KH.pc \in {"alloc", "loop"}
    /\ th'["khubd"].pc = "port"

\* every set bit of the address map is the address of a device that is
\* attached to the tree, or of the device khubd enumerates
MapBitsAttached ==
    \A b \in devicemap :
        \E d \in Devs :
            /\ alloc[d]
            /\ HeldAddress(d) = b
            /\ (d = RootHub \/ Linked(d)
                  \/ (KH.pc \in AttemptPcs /\ d = KH.udev))

InitReturnsError(t) ==
    /\ th[t].pc \in InitPcs
    /\ th'[t].pc \notin InitPcs
    /\ th'[t].status # "0"

TheHub == RootHub + 1
\* hub_irq asks for a reset of the hub at this many consecutive errors
ERRORS_BEFORE_RESET == 10
\* the interrupt errors counted while hub->error is set
MaxErrors == 11
\* the bits of hub->event_bits: bit 0 for the hub, one bit per port
EventBits == 0..NPorts
\* the change bits a status transfer reports
Reports == SUBSET EventBits

HS == hubst[TheHub]
SetHub(h) == hubst' = [hubst EXCEPT ![TheHub] = h]

\* kref_get that takes no reference
kref_get_nothing(kref) == kref

\* kref_get
kref_get(kref) == kref + 1

\* kref_put with hub_release: the structure is freed when the count reaches
\* zero
kref_put(h) == [h EXCEPT !.kref = @ - 1, !.freed = (h.kref - 1 = 0)]

\* cancel_delayed_work_sync that leaves the work scheduled
cancel_delayed_work_nothing(work) == work

\* cancel_delayed_work_sync(&hub->init_work): the work is neither scheduled
\* nor running afterwards
cancel_delayed_work_sync(work) == "none"

\* usb_submit_urb(hub->urb): refused while usb_kill_urb rejects the URB
usb_submit_urb(h) ==
    IF h.urb \in {"idle", "submit"} /\ ~h.reject THEN "inflight"
    ELSE IF h.urb = "submit" THEN "idle" ELSE h.urb

\* hub_activate from the label init3 on: the structure afterwards (kick_khubd
\* is in the actions)
hub_activate_init3(h) ==
    [h EXCEPT !.quiescing = FALSE, !.urb = usb_submit_urb(h),
              !.init_work = "none"]

\* the state after hub_probe: hub_activate(hub, HUB_INIT) has scheduled the
\* second stage and returned; quiescing is 0 since the allocation
HubInit ==
    /\ alloc = [d \in Devs |-> d \in {RootHub, TheHub}]
    /\ state = [d \in Devs |-> IF d \in {RootHub, TheHub}
                               THEN USB_STATE_CONFIGURED
                               ELSE USB_STATE_NOTATTACHED]
    /\ devnum = [d \in Devs |-> IF d \in {RootHub, TheHub} THEN d ELSE 0]
    /\ parent = [d \in Devs |-> IF d = TheHub THEN RootHub ELSE NULL]
    /\ portnum = [d \in Devs |-> IF d = TheHub THEN 1 ELSE 0]
    /\ maxchild = [d \in Devs |-> IF d \in {RootHub, TheHub} THEN NPorts ELSE 0]
    /\ is_hub = [d \in Devs |-> d \in {RootHub, TheHub}]
    /\ active_duration = [d \in Devs |-> 0]
    /\ child = [d \in Devs |-> [p \in Ports |->
                  IF d = RootHub /\ p = 1 THEN TheHub ELSE NULL]]
    /\ devicemap = {1, 2}
    /\ devnum_next = 3
    /\ nalloc = 1
    /\ hubst = [d \in Devs |->
                  IF d = RootHub THEN BoundHub
                  ELSE IF d = TheHub
                  THEN [NoHub EXCEPT !.kref = 1, !.init_work = "init2"]
                  ELSE NoHub]
    /\ port_enabled = {<<RootHub, 1>>}
    /\ lpm = NoLpm
    /\ CallsInit
    /\ hub_event_list = << >>
    /\ disconnected = [d \in Devs |-> FALSE]
    /\ busy_bits = [d \in Devs |-> {}]
    /\ devlock = [d \in Devs |-> NoThread]
    /\ usb_address0_mutex = NoThread
    /\ th = [t \in Threads |-> Idle]
    /\ call = NoCall
    /\ db = NoDebounce

\* what no action of SpecHub changes
hubFixed == <<alloc, devnum, parent, portnum, is_hub, child, devicemap,
              devnum_next, nalloc, port_enabled, lpm, port_owner, callVars, busy_bits,
              usb_address0_mutex, call, db>>

\* hub_init_func2 and hub_init_func3: the init work runs hub_activate for
\* HUB_INIT2, which schedules the third stage when a debounce delay is
\* needed, or for HUB_INIT3
H_init_work(need_debounce_delay) ==
    /\ HS.init_work # "none"
    /\ IF HS.init_work = "init2" /\ need_debounce_delay
       THEN /\ SetHub([HS EXCEPT !.init_work = "init3"])
            /\ UNCHANGED hub_event_list
       ELSE /\ SetHub(hub_activate_init3(HS))
            /\ hub_event_list' = kick_khubd(TheHub, hub_event_list)
    /\ UNCHANGED <<hubFixed, state, active_duration, maxchild, disconnected,
                   devlock, th>>

\* hub_irq that adds the reported bits to the pending ones
merge_event_bits(pending, bits) == pending \cup bits

\* hub_irq: hub->event_bits[0] = bits
store_event_bits(pending, bits) == bits

\* hub_irq that asks for a reset at every tenth error
only_counted_always(nerrors, error) == nerrors < ERRORS_BEFORE_RESET

\* hub_irq after ++hub->nerrors: the error is only counted, (hub->nerrors <
\* 10) || hub->error
only_counted(nerrors, error) ==
    nerrors < ERRORS_BEFORE_RESET \/ error # "0"

\* the status URB completes and hub_irq runs up to the label resubmit
H_hub_irq(status, bits) ==
    /\ HS.urb = "inflight"
    /\ status # "0" => (bits = {} /\ HS.nerrors < MaxErrors)
    /\ LET counted == status # "0" /\ only_counted(HS.nerrors + 1, HS.error)
       IN IF counted
          THEN /\ SetHub([HS EXCEPT !.nerrors = @ + 1, !.urb = "resubmit",
                                    !.urb_status = status])
               /\ UNCHANGED hub_event_list
          ELSE /\ SetHub([HS EXCEPT
                            !.error = IF status # "0" THEN status ELSE @,
                            !.urb_status = status,
                            !.buffer = bits,
                            !.event_bits = store_event_bits(@, bits),
                            !.nerrors = 0,
                            !.urb = "resubmit"])
               /\ hub_event_list' = kick_khubd(TheHub, hub_event_list)
    /\ UNCHANGED <<hubFixed, state, active_duration, maxchild, disconnected,
                   devlock, th>>

\* hub_irq for an unlinked URB (-ENOENT): it returns at once
H_hub_irq_unlinked ==
    /\ HS.urb = "unlinked"
    /\ SetHub([HS EXCEPT !.urb = "idle"])
    /\ UNCHANGED <<hubFixed, state, active_duration, maxchild, disconnected,
                   devlock, th, hub_event_list>>

\* hub_irq at the label resubmit: the test of hub->quiescing
H_hub_irq_resubmit ==
    /\ HS.urb = "resubmit"
    /\ SetHub([HS EXCEPT !.urb = IF HS.quiescing THEN "idle" ELSE "submit"])
    /\ UNCHANGED <<hubFixed, state, active_duration, maxchild, disconnected,
                   devlock, th, hub_event_list>>

\* hub_irq: usb_submit_urb, and the return
H_hub_irq_submit ==
    /\ HS.urb = "submit"
    /\ SetHub([HS EXCEPT !.urb = usb_submit_urb(HS)])
    /\ UNCHANGED <<hubFixed, state, active_duration, maxchild, disconnected,
                   devlock, th, hub_event_list>>

\* where hub_quiesce returns to
AfterQuiesce(t, type) ==
    IF t = "khubd"
    THEN (IF type = "HUB_PRE_RESET" THEN "h_reset" ELSE "h_unlock")
    ELSE (IF type = "HUB_PRE_RESET" THEN "c_post_reset"
          ELSE IF type = "HUB_SUSPEND" THEN "c_suspended" ELSE "c_disc_end")

\* hub_quiesce: cancel_delayed_work_sync and hub->quiescing = 1
H_hub_quiesce(t) ==
    /\ th[t].pc = "q_flag"
    /\ SetHub([HS EXCEPT !.init_work = cancel_delayed_work_sync(@),
                         !.quiescing = TRUE])
    /\ th' = [th EXCEPT ![t].pc = "q_kill"]
    /\ UNCHANGED <<hubFixed, state, active_duration, maxchild, disconnected,
                   devlock, hub_event_list>>

\* hub_quiesce: usb_kill_urb rejects the URB and unlinks it
H_usb_kill_urb(t) ==
    /\ th[t].pc = "q_kill"
    /\ SetHub([HS EXCEPT !.reject = TRUE,
                         !.urb = IF @ = "inflight" THEN "unlinked" ELSE @])
    /\ th' = [th EXCEPT ![t].pc = "q_wait"]
    /\ UNCHANGED <<hubFixed, state, active_duration, maxchild, disconnected,
                   devlock, hub_event_list>>

\* usb_kill_urb that returns after the unlink
usb_unlink_urb_done(h) == TRUE

\* usb_kill_urb returns when the URB is neither in flight nor in its
\* completion handler
usb_kill_urb_done(h) == h.urb = "idle"

\* hub_quiesce: usb_kill_urb returns, and hub_quiesce with it
H_usb_kill_urb_return(t) ==
    /\ th[t].pc = "q_wait"
    /\ usb_kill_urb_done(HS)
    /\ SetHub([HS EXCEPT !.reject = FALSE])
    /\ th' = [th EXCEPT ![t].pc = AfterQuiesce(t, th[t].status)]
    /\ UNCHANGED <<hubFixed, state, active_duration, maxchild, disconnected,
                   devlock, hub_event_list>>

\* hub_events: the hub is taken off hub_event_list and a reference to it is
\* taken, under hub_event_lock
H_hub_events_dequeue ==
    /\ KH.pc = "idle"
    /\ hub_event_list # << >>
    /\ LET hub == Head(hub_event_list) IN
          /\ hub_event_list' = Tail(hub_event_list)
          /\ hubst' = [hubst EXCEPT ![hub].kref = kref_get(@)]
          /\ th' = [th EXCEPT !["khubd"] =
                      [Idle EXCEPT !.hub = hub,
                                   !.pc = IF disconnected[hub] THEN "h_put"
                                          ELSE "h_lock"]]
    /\ UNCHANGED <<hubFixed, state, active_duration, maxchild, disconnected,
                   devlock>>

\* hub_events from usb_lock_device to the loop over the ports: the tests of
\* hub->disconnected and of the state of the hub, usb_autopm_get_interface
\* (which resumes a suspended hub: hub_resume, hub_activate), the tests of
\* hub->quiescing and hub->error, and the call of usb_reset_device up to
\* hub_pre_reset
H_hub_events_lock(resumed) ==
    /\ KH.pc = "h_lock"
    /\ devlock[KH.hub] = NoThread
    /\ devlock' = [devlock EXCEPT ![KH.hub] = "khubd"]
    /\ resumed \/ state[KH.hub] = USB_STATE_SUSPENDED
    /\ IF disconnected[KH.hub]
       THEN /\ th' = [th EXCEPT !["khubd"].pc = "h_unlock"]
            /\ UNCHANGED <<hubst, state, active_duration, hub_event_list>>
       ELSE IF state[KH.hub] = USB_STATE_NOTATTACHED
       THEN /\ SetHub([HS EXCEPT !.error = "-ENODEV"])
            /\ th' = [th EXCEPT !["khubd"].pc = "q_flag",
                                !["khubd"].status = "HUB_DISCONNECT"]
            /\ UNCHANGED <<state, active_duration, hub_event_list>>
       ELSE IF ~resumed
       THEN /\ th' = [th EXCEPT !["khubd"].pc = "h_unlock"]
            /\ UNCHANGED <<hubst, state, active_duration, hub_event_list>>
       ELSE LET wake == state[KH.hub] = USB_STATE_SUSPENDED
                r == IF wake
                     THEN usb_set_device_state(KH.hub, USB_STATE_CONFIGURED,
                                               Jiffies)
                     ELSE [state |-> state,
                           active_duration |-> active_duration]
                h == IF wake THEN hub_activate_init3(HS) ELSE HS
            IN /\ state' = r.state
               /\ active_duration' = r.active_duration
               /\ SetHub(h)
               /\ hub_event_list' = IF wake
                                    THEN kick_khubd(KH.hub, hub_event_list)
                                    ELSE hub_event_list
               /\ th' = [th EXCEPT
                           !["khubd"].port1 = 1,
                           !["khubd"].status =
                               IF ~h.quiescing /\ h.error # "0"
                               THEN "HUB_PRE_RESET" ELSE "0",
                           !["khubd"].pc =
                               IF h.quiescing THEN "h_unlock"
                               ELSE IF h.error # "0" THEN "q_flag"
                               ELSE "h_port"]
    /\ UNCHANGED <<hubFixed, maxchild, disconnected>>

\* hub_events: usb_reset_device after hub_pre_reset: the reset, then
\* hub_post_reset with hub_activate, whatever the reset returned
H_usb_reset_device(ret) ==
    /\ KH.pc = "h_reset"
    /\ SetHub(hub_activate_init3(HS))
    /\ hub_event_list' = kick_khubd(KH.hub, hub_event_list)
    /\ th' = [th EXCEPT !["khubd"].status = ret,
                        !["khubd"].pc = IF ret = "0" THEN "h_clear"
                                        ELSE "h_unlock"]
    /\ UNCHANGED <<hubFixed, state, active_duration, maxchild, disconnected,
                   devlock>>

\* hub_events after a reset that succeeded: hub->nerrors = 0, hub->error = 0
H_hub_events_clear ==
    /\ KH.pc = "h_clear"
    /\ SetHub([HS EXCEPT !.nerrors = 0, !.error = "0"])
    /\ th' = [th EXCEPT !["khubd"].pc = "h_port"]
    /\ UNCHANGED <<hubFixed, state, active_duration, maxchild, disconnected,
                   devlock, hub_event_list>>

\* hub_events: test_and_clear_bit of the event bit of one port, and after
\* the ports of bit 0, the event of the hub itself
H_hub_events_port ==
    /\ KH.pc = "h_port"
    /\ IF KH.port1 <= NPorts
       THEN /\ SetHub([HS EXCEPT !.event_bits = @ \ {KH.port1}])
            /\ th' = [th EXCEPT !["khubd"].port1 = @ + 1]
       ELSE /\ SetHub([HS EXCEPT !.event_bits = @ \ {0}])
            /\ th' = [th EXCEPT !["khubd"].pc = "h_unlock"]
    /\ UNCHANGED <<hubFixed, state, active_duration, maxchild, disconnected,
                   devlock, hub_event_list>>

\* hub_events: usb_unlock_device at the end of the pass
H_hub_events_unlock ==
    /\ KH.pc = "h_unlock"
    /\ devlock' = [devlock EXCEPT ![KH.hub] = NoThread]
    /\ th' = [th EXCEPT !["khubd"].pc = "h_put"]
    /\ UNCHANGED <<hubFixed, state, active_duration, maxchild, disconnected,
                   hubst, hub_event_list>>

\* hub_events: kref_put(&hub->kref, hub_release)
H_hub_events_put ==
    /\ KH.pc = "h_put"
    /\ hubst' = [hubst EXCEPT ![KH.hub] = kref_put(@)]
    /\ th' = [th EXCEPT !["khubd"] = Idle]
    /\ UNCHANGED <<hubFixed, state, active_duration, maxchild, disconnected,
                   devlock, hub_event_list>>

\* a context of the driver core may call into the hub driver
MayCall ==
    /\ RS.pc = "idle"
    /\ devlock[TheHub] = NoThread
    /\ ~disconnected[TheHub]
    /\ usb_hub_to_struct_hub(TheHub) # NULL

\* hub_suspend of an idle hub, the device locked: hub_quiesce(hub, HUB_SUSPEND)
H_hub_suspend ==
    /\ MayCall
    /\ state[TheHub] = USB_STATE_CONFIGURED
    /\ KH.pc = "idle"
    /\ TheHub \notin Range(hub_event_list)
    /\ HS.init_work = "none"
    /\ devlock' = [devlock EXCEPT ![TheHub] = "reset"]
    /\ th' = [th EXCEPT !["reset"] = [Idle EXCEPT !.pc = "q_flag",
                                                  !.hub = TheHub,
                                                  !.status = "HUB_SUSPEND"]]
    /\ UNCHANGED <<hubFixed, state, active_duration, maxchild, disconnected,
                   hubst, hub_event_list>>

\* the hub is suspended: the end of the suspend call
H_hub_suspend_end ==
    /\ RS.pc = "c_suspended"
    /\ LET r == usb_set_device_state(TheHub, USB_STATE_SUSPENDED, Jiffies) IN
          /\ state' = r.state
          /\ active_duration' = r.active_duration
    /\ devlock' = [devlock EXCEPT ![TheHub] = NoThread]
    /\ th' = [th EXCEPT !["reset"] = Idle]
    /\ UNCHANGED <<hubFixed, maxchild, disconnected, hubst, hub_event_list>>

\* hub_resume: hub_activate(hub, HUB_RESUME)
H_hub_resume ==
    /\ MayCall
    /\ state[TheHub] = USB_STATE_SUSPENDED
    /\ LET r == usb_set_device_state(TheHub, USB_STATE_CONFIGURED, Jiffies) IN
          /\ state' = r.state
          /\ active_duration' = r.active_duration
    /\ SetHub(hub_activate_init3(HS))
    /\ hub_event_list' = kick_khubd(TheHub, hub_event_list)
    /\ UNCHANGED <<hubFixed, maxchild, disconnected, devlock, th>>

\* usb_reset_device of the hub by another driver or usbfs, the device
\* locked: hub_pre_reset, hub_quiesce(hub, HUB_PRE_RESET)
H_hub_pre_reset ==
    /\ MayCall
    /\ state[TheHub] = USB_STATE_CONFIGURED
    /\ devlock' = [devlock EXCEPT ![TheHub] = "reset"]
    /\ th' = [th EXCEPT !["reset"] = [Idle EXCEPT !.pc = "q_flag",
                                                  !.hub = TheHub,
                                                  !.status = "HUB_PRE_RESET"]]
    /\ UNCHANGED <<hubFixed, state, active_duration, maxchild, disconnected,
                   hubst, hub_event_list>>

\* hub_post_reset: hub_activate(hub, HUB_POST_RESET), and the end of the
\* reset
H_hub_post_reset ==
    /\ RS.pc = "c_post_reset"
    /\ SetHub(hub_activate_init3(HS))
    /\ hub_event_list' = kick_khubd(TheHub, hub_event_list)
    /\ devlock' = [devlock EXCEPT ![TheHub] = NoThread]
    /\ th' = [th EXCEPT !["reset"] = Idle]
    /\ UNCHANGED <<hubFixed, state, active_duration, maxchild, disconnected>>

\* hub_disconnect, the device locked, up to hub_quiesce: the hub is taken
\* off hub_event_list, hub->disconnected = 1, hub->error = 0
H_hub_disconnect ==
    /\ MayCall
    /\ devlock' = [devlock EXCEPT ![TheHub] = "reset"]
    /\ hub_event_list' = SelectSeq(hub_event_list, LAMBDA h : h # TheHub)
    /\ disconnected' = [disconnected EXCEPT ![TheHub] = TRUE]
    /\ SetHub([HS EXCEPT !.error = "0"])
    /\ th' = [th EXCEPT !["reset"] = [Idle EXCEPT !.pc = "q_flag",
                                                  !.hub = TheHub,
                                                  !.status = "HUB_DISCONNECT"]]
    /\ UNCHANGED <<hubFixed, state, active_duration, maxchild>>

\* hub_disconnect after hub_quiesce: maxchild = 0, the URB and the buffers
\* are freed, kref_put; the caller unlocks the device
H_hub_disconnect_end ==
    /\ RS.pc = "c_disc_end"
    /\ maxchild' = [maxchild EXCEPT ![TheHub] = 0]
    /\ SetHub(kref_put(HS))
    /\ devlock' = [devlock EXCEPT ![TheHub] = NoThread]
    /\ th' = [th EXCEPT !["reset"] = Idle]
    /\ UNCHANGED <<hubFixed, state, active_duration, disconnected,
                   hub_event_list>>

\* the hub is unplugged: khubd, for the parent, marks it NOTATTACHED
H_unplug ==
    /\ alloc[TheHub]
    /\ state[TheHub] # USB_STATE_NOTATTACHED
    /\ RS.pc = "idle"
    /\ LET r == usb_set_device_state(TheHub, USB_STATE_NOTATTACHED, Jiffies) IN
          /\ state' = r.state
          /\ active_duration' = r.active_duration
    /\ UNCHANGED <<hubFixed, maxchild, disconnected, devlock, hubst,
                   hub_event_list, th>>

\* the status a failed interrupt transfer completes with
TransferErrors == {"-EPROTO"}
\* what usb_reset_device returns
ResetResults == {"0", "-ENODEV"}

NextHub ==
    \/ \E need_debounce_delay \in BOOLEAN : H_init_work(need_debounce_delay)
    \/ \E status \in {"0"} \cup TransferErrors, bits \in Reports :
          H_hub_irq(status, bits)
    \/ H_hub_irq_unlinked
    \/ H_hub_irq_resubmit
    \/ H_hub_irq_submit
    \/ \E t \in Threads : H_hub_quiesce(t)
    \/ \E t \in Threads : H_usb_kill_urb(t)
    \/ \E t \in Threads : H_usb_kill_urb_return(t)
    \/ H_hub_events_dequeue
    \/ \E resumed \in BOOLEAN : H_hub_events_lock(resumed)
    \/ \E ret \in ResetResults : H_usb_reset_device(ret)
    \/ H_hub_events_clear
    \/ H_hub_events_port
    \/ H_hub_events_unlock
    \/ H_hub_events_put
    \/ H_hub_suspend
    \/ H_hub_suspend_end
    \/ H_hub_resume
    \/ H_hub_pre_reset
    \/ H_hub_post_reset
    \/ H_hub_disconnect
    \/ H_hub_disconnect_end
    \/ H_unplug

SpecHub == HubInit /\ [][NextHub]_vars

\* C18: the hub structure is freed exactly when its reference count has
\* reached zero, and a freed structure is not on hub_event_list, its URB is
\* neither in flight nor in hub_irq, and hub_events is not working on it.
C18_FreedOnlyAtZero ==
    /\ HS.kref >= 0
    /\ HS.freed <=> HS.kref = 0
    /\ HS.freed => /\ TheHub \notin Range(hub_event_list)
                   /\ HS.urb = "idle"
                   /\ HS.init_work = "none"
                   /\ ~(KH.pc # "idle" /\ KH.hub = TheHub)

\* hub_disconnect has returned while a pass of hub_events over the hub, begun
\* before it, waits for the device lock: khubd holds the last reference
C18_Witness ==
    /\ disconnected[TheHub]
    /\ RS.pc = "idle"
    /\ KH.pc = "h_lock"
    /\ KH.hub = TheHub
    /\ HS.kref = 1
    /\ ~HS.freed

\* hub_quiesce has returned and hub_activate has not run since: quiescing is
\* set by hub_quiesce and cleared by hub_activate only
Quiesced ==
    /\ HS.quiescing
    /\ \A t \in Threads : th[t].pc \notin {"q_kill", "q_wait"}

\* C17: from the return of hub_quiesce to the next hub_activate the init
\* work of the hub is not scheduled and its status URB is idle: not in
\* flight, and hub_irq neither runs for it nor is about to resubmit it.
C17_QuiescedHubIsSilent ==
    Quiesced => (HS.init_work = "none" /\ HS.urb = "idle")

\* hub_quiesce has returned to usb_reset_device in a pass of hub_events
\* during which hub_irq has put the hub on hub_event_list again
C17_Witness ==
    /\ Quiesced
    /\ KH.pc = "h_reset"
    /\ TheHub \in Range(hub_event_list)
    /\ HS.event_bits # {}

\* the structure of the hub after the step
HS1 == hubst'[TheHub]

\* hub_irq runs for a completion of the status URB
IrqCompletes == HS.urb = "inflight" /\ HS1.urb = "resubmit"

\* the hub is on hub_event_list after the step, as far as kick_khubd allows
Enqueued == disconnected[TheHub] \/ TheHub \in Range(hub_event_list')

\* a pass of hub_events over the hub gets the device lock
PassStarts == KH.pc = "h_lock" /\ th'["khubd"].pc # "h_lock"

\* hub_events calls usb_reset_device
ResetCalled ==
    th'["khubd"].pc = "q_flag" /\ th'["khubd"].status = "HUB_PRE_RESET"

\* the claim as stated.  C15: a successful completion sets the count of
\* errors to zero, fewer than 10 consecutive errors leave hub->error alone,
\* the 10th sets hub->error and enqueues the hub, the next pass of
\* hub_events over the hub calls usb_reset_device, and hub_events clears
\* error and count only after a reset that succeeded.
C15_TenthErrorResets ==
    [][/\ IrqCompletes
          => /\ HS1.urb_status = "0" => HS1.nerrors = 0
             /\ (HS1.urb_status # "0"
                   /\ HS.nerrors + 1 < ERRORS_BEFORE_RESET)
                  => HS1.error = HS.error
             /\ (HS1.urb_status # "0"
                   /\ HS.nerrors + 1 = ERRORS_BEFORE_RESET)
                  => (HS1.error # "0" /\ Enqueued)
       /\ (PassStarts /\ HS.error \in TransferErrors) => ResetCalled
       /\ (KH.pc # "h_clear" /\ th'["khubd"].pc = "h_clear")
            => (KH.pc = "h_reset" /\ th'["khubd"].status = "0")
       /\ (th'["khubd"] # KH /\ HS.error # "0" /\ HS1.error = "0")
            => (KH.pc = "h_clear" /\ HS1.nerrors = 0)]_vars

\* C15 as the code has it: an error that brings the count to 10 (or beyond,
\* after hub_disconnect has cleared hub->error) while hub->error is clear
\* sets hub->error and enqueues the hub, and the count restarts; fewer
\* errors, and errors while hub->error is set, are only counted.  A pass of hub_events that
\* finds the hub bound, attached, resumed and not quiescing with hub->error
\* set calls usb_reset_device; a hub that is NOTATTACHED gets -ENODEV as
\* its error instead.  hub_events clears error and count only after a reset
\* that succeeded.
C15_TenthErrorResetsUnlessPending ==
    [][/\ IrqCompletes
          => /\ HS1.urb_status = "0" => (HS1.nerrors = 0
                                         /\ HS1.error = HS.error)
             /\ (HS1.urb_status # "0"
                   /\ (HS.nerrors + 1 < ERRORS_BEFORE_RESET
                        \/ HS.error # "0"))
                  => /\ HS1.error = HS.error
                     /\ HS1.nerrors = HS.nerrors + 1
                     /\ hub_event_list' = hub_event_list
             /\ (HS1.urb_status # "0"
                   /\ HS.nerrors + 1 >= ERRORS_BEFORE_RESET
                   /\ HS.error = "0")
                  => /\ HS1.error = HS1.urb_status
                     /\ HS1.nerrors = 0
                     /\ Enqueued
       /\ (/\ PassStarts
           /\ HS.error # "0"
           /\ ~disconnected[TheHub]
           /\ state[TheHub] # USB_STATE_NOTATTACHED
           /\ state'[TheHub] = USB_STATE_CONFIGURED
           /\ ~HS1.quiescing)
            => ResetCalled
       /\ (PassStarts /\ ~disconnected[TheHub]
                      /\ state[TheHub] = USB_STATE_NOTATTACHED)
            => (HS1.error = "-ENODEV" /\ ~ResetCalled)
       /\ (KH.pc # "h_clear" /\ th'["khubd"].pc = "h_clear")
            => (KH.pc = "h_reset" /\ th'["khubd"].status = "0")
       /\ (th'["khubd"] # KH /\ HS.error # "0" /\ HS1.error = "0")
            => (KH.pc = "h_clear" /\ HS1.nerrors = 0)
       /\ (HS.error = "0" /\ HS1.error # "0")
            => \/ IrqCompletes /\ HS.nerrors + 1 >= ERRORS_BEFORE_RESET
               \/ PassStarts /\ HS1.error = "-ENODEV"]_vars

\* the reset that the 10th error asked for has succeeded and hub_events is
\* about to clear hub->error; errors have been counted again since
C15_Witness ==
    /\ KH.pc = "h_clear"
    /\ HS.error = "-EPROTO"
    /\ HS.nerrors > 0

\* hub_events consumes the event bit b: test_and_clear_bit
WorkerConsumes(b) ==
    /\ KH.pc = "h_port"
    /\ th'["khubd"] # KH
    /\ b = (IF KH.port1 <= NPorts THEN KH.port1 ELSE 0)

\* the claim as stated.  C16: hub_irq adds the reported change bits to the
\* pending event bits and enqueues the hub, and a pending bit is cleared by
\* nothing but hub_events consuming it.
C16_ReportedBitsMerged ==
    [][/\ (IrqCompletes /\ HS1.urb_status = "0")
            => (/\ HS1.event_bits = HS.event_bits \cup HS1.buffer
                /\ Enqueued)
       /\ \A b \in HS.event_bits \ HS1.event_bits : WorkerConsumes(b)]_vars

\* C16 as the code has it: hub_irq replaces the pending event bits by the
\* reported change bits and enqueues the hub; a pending bit is cleared when
\* hub_events consumes it or when hub_irq passes on a report without it,
\* hub_events clears no bit but the one it consumes, and a bit is set only
\* by a report that has it.
C16_ReportedBitsStored ==
    [][/\ (IrqCompletes /\ HS1.urb_status = "0")
            => (/\ HS1.event_bits = HS1.buffer
                /\ Enqueued)
       /\ \A b \in HS.event_bits \ HS1.event_bits :
             \/ WorkerConsumes(b)
             \/ IrqCompletes /\ b \notin HS1.buffer
       /\ \A b \in HS1.event_bits \ HS.event_bits :
             IrqCompletes /\ b \in HS1.buffer
       /\ (KH.pc = "h_port" /\ th'["khubd"] # KH)
            => \A b \in HS.event_bits :
                  b \in HS1.event_bits \/ WorkerConsumes(b)]_vars

\* hub_events drains the bits and is past port 1, whose bit a completion has
\* set again, the bit of port 2 still pending
C16_Witness ==
    /\ KH.pc = "h_port"
    /\ KH.port1 = 2
    /\ HS.event_bits = {1, 2}
    /\ HS.urb = "resubmit"

(***************************************************************************)
(* SpecLpm: usb_disable_lpm and usb_enable_lpm on one LPM-capable          *)
(* SuperSpeed device whose host controller has the LPM callbacks.  The     *)
(* callers hold bandwidth_mutex, so one call runs at a time; a call takes  *)
(* one step per link state.  Whether a request succeeds is an input.       *)
(***************************************************************************)
\* calls of the two functions by their callers
MaxLpmCalls == 6

\* the device is enumerated and no call has been made
LpmInit ==
    /\ TreeInit
    /\ EnumInit
    /\ call = NoCall
    /\ db = NoDebounce

lpmFixed == <<treeVars, call, db, hubst, port_enabled, port_owner, callVars,
              enumVars>>

\* usb_enable_lpm that does not look at lpm_disable_count
lpm_disable_count_ignored(count) == FALSE

\* usb_enable_lpm returns early: udev->lpm_disable_count > 0
lpm_still_disabled(count) == count > 0

\* the return of a call to its caller
LpmReturn(l, ret) ==
    [l EXCEPT !.pc = "idle", !.op = "none", !.ret = ret,
              !.disables = IF l.op = "disable" /\ ret = "0" THEN @ + 1 ELSE @,
              !.failed = IF l.op = "disable" /\ ret # "0" THEN @ + 1 ELSE @,
              !.enables = IF l.op = "enable" THEN @ + 1 ELSE @]

\* usb_enable_lpm up to the first usb_enable_link_state; called from
\* usb_disable_lpm at the label enable_lpm as well, which then returns
\* -EBUSY
usb_enable_lpm_entry(l) ==
    LET m == [l EXCEPT !.lpm_disable_count = @ - 1] IN
    IF lpm_still_disabled(m.lpm_disable_count)
    THEN LpmReturn(m, IF m.op = "disable" THEN "-EBUSY" ELSE m.ret)
    ELSE [m EXCEPT !.pc = "en_u1"]

\* a caller calls usb_disable_lpm: the count goes up, and with both
\* timeouts at 0 the call returns 0
L_usb_disable_lpm ==
    /\ lpm.pc = "idle"
    /\ lpm.disables + lpm.enables + lpm.failed < MaxLpmCalls
    /\ LET l == [lpm EXCEPT !.lpm_disable_count = @ + 1, !.op = "disable"]
       IN lpm' = IF ~l.u1 /\ ~l.u2 THEN LpmReturn(l, "0")
                 ELSE [l EXCEPT !.pc = "dis_u1"]
    /\ UNCHANGED lpmFixed

\* usb_disable_lpm: usb_disable_link_state for U1, then for U2; when
\* usb_set_lpm_timeout fails, goto enable_lpm
L_usb_disable_link_state(ok) ==
    /\ lpm.pc \in {"dis_u1", "dis_u2"}
    /\ lpm' = IF ~ok THEN usb_enable_lpm_entry(lpm)
              ELSE IF lpm.pc = "dis_u1"
              THEN [lpm EXCEPT !.u1 = FALSE, !.pc = "dis_u2"]
              ELSE LpmReturn([lpm EXCEPT !.u2 = FALSE], "0")
    /\ UNCHANGED lpmFixed

\* a caller whose usb_disable_lpm returned 0 calls usb_enable_lpm
L_usb_enable_lpm ==
    /\ lpm.pc = "idle"
    /\ lpm.enables < lpm.disables
    /\ lpm' = usb_enable_lpm_entry([lpm EXCEPT !.op = "enable"])
    /\ UNCHANGED lpmFixed

\* usb_enable_lpm: usb_enable_link_state for U1, then for U2.  The state is
\* enabled when every request succeeds; otherwise the function returns and
\* the timeout is as it was
L_usb_enable_link_state(ok) ==
    /\ lpm.pc \in {"en_u1", "en_u2"}
    /\ lpm' = IF lpm.pc = "en_u1"
              THEN [lpm EXCEPT !.u1 = @ \/ ok, !.link_ok = ok,
                               !.pc = "en_u2"]
              ELSE LpmReturn([lpm EXCEPT !.u2 = @ \/ ok, !.link_ok = ok],
                             IF lpm.op = "disable" THEN "-EBUSY"
                             ELSE lpm.ret)
    /\ UNCHANGED lpmFixed

\* the link states a device starts with: usb_enable_lpm at the end of the
\* enumeration may have enabled none, one or both
L_enumerated(u1, u2) ==
    /\ lpm = NoLpm
    /\ ~(u1 /\ u2)
    /\ lpm' = [NoLpm EXCEPT !.u1 = u1, !.u2 = u2, !.link_ok = FALSE]
    /\ UNCHANGED lpmFixed

NextLpm ==
    \/ \E u1 \in BOOLEAN, u2 \in BOOLEAN : L_enumerated(u1, u2)
    \/ L_usb_disable_lpm
    \/ \E ok \in BOOLEAN : L_usb_disable_link_state(ok)
    \/ L_usb_enable_lpm
    \/ \E ok \in BOOLEAN : L_usb_enable_link_state(ok)

SpecLpm == LpmInit /\ [][NextLpm]_vars

\* between calls the count is the number of usb_disable_lpm calls that
\* returned 0 and have not been followed by their usb_enable_lpm, and while
\* there is one the link states are disabled
LpmCounted ==
    lpm.pc = "idle"
    => /\ lpm.lpm_disable_count = lpm.disables - lpm.enables
       /\ lpm.disables > lpm.enables => (~lpm.u1 /\ ~lpm.u2)

\* C19: LPM disabling is reference counted: while more usb_disable_lpm
\* calls have returned 0 than usb_enable_lpm calls have been made the U1
\* and U2 link states are disabled; a link state is enabled only by
\* usb_enable_lpm with lpm_disable_count back at zero; and a
\* usb_enable_link_state that fails leaves its state as it was, the
\* usb_enable_lpm call of the caller reporting no error.
C19_LpmReferenceCounted ==
    /\ []LpmCounted
    /\ [][/\ ((~lpm.u1 /\ lpm'.u1) \/ (~lpm.u2 /\ lpm'.u2))
              => (lpm.pc \in {"en_u1", "en_u2"}
                  /\ lpm'.lpm_disable_count = 0)
          /\ (lpm.pc \in {"en_u1", "en_u2"} /\ ~lpm'.link_ok)
              => (/\ lpm'.u1 = lpm.u1
                  /\ lpm'.u2 = lpm.u2
                  /\ lpm.op = "enable" => lpm'.ret = lpm.ret)]_vars

\* two callers have disabled LPM and one of them has enabled it again, a
\* usb_enable_link_state has failed before, and the link states are
\* disabled
C19_Witness ==
    /\ lpm.pc = "idle"
    /\ lpm.disables = 2
    /\ lpm.enables = 1
    /\ lpm.failed = 1
    /\ lpm.lpm_disable_count = 1
    /\ ~lpm.u1 /\ ~lpm.u2

(***************************************************************************)
(* SpecDevnum: choose_devnum and release_devnum as functions of the        *)
(* address map.  The map and bus->devnum_next at the start are drawn from  *)
(* a family in which the addresses outside MaybeFree are taken by devices  *)
(* of the bus that the model does not follow, so that full maps, maps with *)
(* one free address and searches that wrap past 127 all happen.            *)
(***************************************************************************)
\* the addresses that may be free at the start
MaybeFree == {2, 3, 64, DevMapBits - 2, DevMapBits - 1}
\* the positions bus->devnum_next may have at the start
StartPositions == {1, 2, 4, 65, DevMapBits - 2, DevMapBits - 1}

DevnumInit ==
    /\ alloc = [d \in Devs |-> TRUE]
    /\ state = [d \in Devs |-> USB_STATE_NOTATTACHED]
    /\ devnum = [d \in Devs |-> 0]
    /\ parent = [d \in Devs |-> NULL]
    /\ portnum = [d \in Devs |-> 0]
    /\ maxchild = [d \in Devs |-> 0]
    /\ is_hub = [d \in Devs |-> FALSE]
    /\ active_duration = [d \in Devs |-> 0]
    /\ child = [d \in Devs |-> [p \in Ports |-> NULL]]
    /\ \E free \in SUBSET MaybeFree :
          devicemap = (1..(DevMapBits - 1)) \ free
    /\ devnum_next \in StartPositions
    /\ nalloc = 0
    /\ EnumInit
    /\ call = NoCall
    /\ db = NoDebounce

devnumFixed == <<alloc, state, parent, portnum, maxchild, is_hub,
                 active_duration, child, nalloc, db, hubst, port_enabled,
                 lpm, port_owner, callVars, enumVars>>

\* choose_devnum(udev) for a new device object, whose devnum is 0: the
\* address is stored in the object only when one was found
D_choose_devnum(udev) ==
    /\ devnum[udev] = 0
    /\ LET r == choose_devnum(devicemap, devnum_next)
       IN /\ devicemap' = r.devicemap
          /\ devnum_next' = r.devnum_next
          /\ devnum' = [devnum EXCEPT ![udev] = r.devnum]
    \* addrs records the position the search started from
    /\ call' = [NoCall EXCEPT !.op = "choose_devnum", !.dev = udev,
                              !.addrs = {devnum_next}]
    /\ UNCHANGED devnumFixed

\* release_devnum(udev)
D_release_devnum(udev) ==
    /\ LET r == release_devnum(devnum[udev], devicemap)
       IN /\ devicemap' = r.devicemap
          /\ devnum' = [devnum EXCEPT ![udev] = r.devnum]
    /\ call' = [NoCall EXCEPT !.op = "release_devnum", !.dev = udev]
    /\ UNCHANGED <<devnum_next, devnumFixed>>

NextDevnum ==
    \/ \E udev \in Devs : D_choose_devnum(udev)
    \/ \E udev \in Devs : D_release_devnum(udev)

SpecDevnum == DevnumInit /\ [][NextDevnum]_vars

\* the step is a call of choose_devnum
ChooseCalled == call'.op = "choose_devnum" /\ call' # call

\* the step is a call of release_devnum for a device that has an address
ReleaseCalled ==
    /\ call'.op = "release_devnum"
    /\ devnum[call'.dev] > 0
    /\ devnum'[call'.dev] # devnum[call'.dev]

(***************************************************************************)
(* C20: choose_devnum gives a device that is not wireless the first free   *)
(* address at or after bus->devnum_next, else the lowest free address from *)
(* 1 up, and leaves devnum_next at the position after it (1 after 127);    *)
(* the address is never 0 and never one whose bit is set, and exactly its  *)
(* bit is set; with 1..127 all taken the device keeps no address and the   *)
(* map is unchanged.  release_devnum clears exactly the bit of the         *)
(* device's address, which is free to be issued again.                     *)
(***************************************************************************)
C20_ChooseAndReleaseDevnum ==
    [][/\ ChooseCalled =>
            LET udev == call'.dev
                a == devnum'[udev]
            IN /\ \A d \in Devs \ {udev} : devnum'[d] = devnum[d]
               /\ IF FreeAddresses(devicemap) = {}
                  THEN /\ a = 0
                       /\ devicemap' = devicemap
                  ELSE /\ a = RoundRobinAddress(devicemap, devnum_next)
                       /\ a \in 1..(DevMapBits - 1)
                       /\ a \notin devicemap
                       /\ devicemap' = devicemap \cup {a}
                       /\ devnum_next' = IF a = DevMapBits - 1 THEN 1 ELSE a + 1
       /\ ReleaseCalled =>
            LET udev == call'.dev
            IN /\ devicemap' = devicemap \ {devnum[udev]}
               /\ devnum[udev] \in FreeAddresses(devicemap')
               /\ devnum'[udev] = -1
               /\ \A d \in Devs \ {udev} : devnum'[d] = devnum[d]
               /\ choose_devnum(devicemap', devnum[udev]).devnum = devnum[udev]
      ]_vars

\* a search that started above the only free address has wrapped past 127 to
\* it, an address another device had released, with every other address taken
C20_Witness ==
    /\ call.op = "choose_devnum"
    /\ call.addrs = {DevMapBits - 1}
    /\ devnum[call.dev] = 2
    /\ devnum_next = 3
    /\ \E d \in Devs : devnum[d] = -1
    /\ FreeAddresses(devicemap) = {}

(***************************************************************************)
(* SpecReset: hub_port_reset and hub_port_wait_reset, one step per request *)
(* to the hub and per sleep.  rst holds the locals of the call: i, status, *)
(* warm and delay of hub_port_reset, delay_time and the delay of           *)
(* hub_port_wait_reset (wdelay); slept adds up the msleep of the current   *)
(* wait, tries counts the set_port_feature requests of the call.           *)
(***************************************************************************)
PORT_RESET_TRIES == 5
HUB_ROOT_RESET_TIME == 50
HUB_SHORT_RESET_TIME == 10
HUB_BH_RESET_TIME == 50
HUB_LONG_RESET_TIME == 200
HUB_RESET_TIMEOUT == 800

\* the delays hub_port_reset is called with
ResetDelays == {HUB_SHORT_RESET_TIME, HUB_ROOT_RESET_TIME, HUB_LONG_RESET_TIME}
\* the errors of a control transfer to the hub
ControlErrors == {"-ENODEV", "-EPIPE"}
\* the port status a read returns: err is 0 or the error of the transfer,
\* and after a transfer without error the bits the reset path looks at and
\* whether the link is in a state that asks for a warm reset
PortReads ==
    {r \in [err : {"0"} \cup ControlErrors, reset : BOOLEAN,
            connection : BOOLEAN, enable : BOOLEAN, c_connection : BOOLEAN,
            link_error : BOOLEAN] :
        r.err # "0" => ~(r.reset \/ r.connection \/ r.enable
                           \/ r.c_connection \/ r.link_error)}
\* the status read that follows a try on a SuperSpeed hub
PostReads == {r \in PortReads : ~(r.reset \/ r.connection \/ r.enable
                                     \/ r.c_connection)}

ResetInit ==
    /\ TreeInit
    /\ EnumInit
    /\ call = NoCall
    /\ db = NoDebounce

resetFixed == <<treeVars, call, db, hubst, port_enabled, lpm, port_owner,
                hpi, lpm_path, link, pw, pm_usage_cnt, att, enumVars>>

\* hub_port_warm_reset_required
hub_port_warm_reset_required(superspeed, portstatus) ==
    superspeed /\ portstatus.link_error

\* the loop of hub_port_reset goes on while i < PORT_RESET_TRIES, with one
\* try more than that
reset_tries_left_one_more(i) == i < PORT_RESET_TRIES + 1

\* the loop of hub_port_reset goes on while i < PORT_RESET_TRIES
reset_tries_left(i) == i < PORT_RESET_TRIES

\* hub_port_reset: the label done
ResetDone(r, status) == [r EXCEPT !.pc = "done", !.status = status,
                                  !.ret = status]

\* hub_port_reset from the end of a try whose status is known: the test of
\* the status, hub_port_finish_reset, and the next try or the return.  post
\* is the result of the status read after a SuperSpeed reset: an error, or
\* the port status
ResetAfterTry(r, status, post) ==
    LET again(warm) ==
            IF reset_tries_left(r.i + 1)
            THEN [r EXCEPT !.pc = "try", !.status = status, !.warm = warm,
                           !.delay = HUB_LONG_RESET_TIME, !.i = r.i + 1]
            ELSE ResetDone([r EXCEPT !.i = r.i + 1, !.warm = warm], status)
    IN IF status \in {"0", "-ENOTCONN", "-ENODEV"}
       THEN IF ~r.superspeed THEN ResetDone(r, status)
            ELSE IF post.err # "0" THEN ResetDone(r, status)
            ELSE IF ~hub_port_warm_reset_required(r.superspeed, post)
                 THEN ResetDone(r, status)
            ELSE again(TRUE)
       ELSE again(r.warm)

\* hub_port_reset up to its loop: a warm reset of a hub that is not
\* SuperSpeed is refused; a SuperSpeed hub is asked for the port status,
\* which may turn the reset into a warm one
R_hub_port_reset(superspeed, delay, warm, read) ==
    /\ rst.pc = "idle"
    /\ LET r == [NoReset EXCEPT !.superspeed = superspeed, !.warm = warm,
                                  !.delay = delay]
       IN rst' = IF ~superspeed
                 THEN IF warm THEN ResetDone(r, "-EINVAL")
                      ELSE [r EXCEPT !.pc = "try"]
                 ELSE IF warm THEN [r EXCEPT !.pc = "try"]
                 ELSE IF read.err # "0" THEN ResetDone(r, read.err)
                 ELSE [r EXCEPT !.pc = "try",
                         !.warm = hub_port_warm_reset_required(superspeed, read)]
    /\ UNCHANGED resetFixed

\* one try: set_port_feature(PORT_RESET or BH_PORT_RESET); on success
\* hub_port_wait_reset begins
R_set_port_feature(status, post) ==
    /\ rst.pc = "try"
    /\ LET r == [rst EXCEPT !.tries = @ + 1]
       IN rst' = IF status = "0"
                 THEN [r EXCEPT !.pc = "wait", !.wdelay = r.delay,
                                !.delay_time = 0, !.slept = 0]
                 ELSE ResetAfterTry(r, status, post)
    /\ UNCHANGED resetFixed

\* hub_port_wait_reset after its loop: the result for the last status read
hub_port_wait_reset_result(superspeed, portstatus) ==
    IF portstatus.reset THEN "-EBUSY"
    ELSE IF hub_port_warm_reset_required(superspeed, portstatus)
         THEN "-ENOTCONN"
    ELSE IF ~portstatus.connection THEN "-ENOTCONN"
    ELSE IF ~superspeed /\ portstatus.c_connection THEN "-ENOTCONN"
    ELSE IF ~portstatus.enable THEN "-EBUSY"
    ELSE "0"

\* one round of the loop of hub_port_wait_reset: msleep(delay), the status
\* read, the test of the reset bit, the switch to the long delay and the
\* test of delay_time; on leaving the loop the result goes to hub_port_reset
R_hub_port_wait_reset(read, post) ==
    /\ rst.pc = "wait"
    /\ LET r == [rst EXCEPT !.slept = @ + rst.wdelay,
                            !.last = IF read.err # "0" THEN "error"
                                     ELSE IF read.reset THEN "reset"
                                     ELSE "clear"]
           wdelay == IF r.delay_time >= 2 * HUB_SHORT_RESET_TIME
                     THEN HUB_LONG_RESET_TIME ELSE r.wdelay
           delay_time == r.delay_time + wdelay
       IN rst' = IF read.err # "0" THEN ResetAfterTry(r, read.err, post)
                 ELSE IF ~read.reset
                      THEN ResetAfterTry(r,
                              hub_port_wait_reset_result(r.superspeed, read),
                              post)
                 ELSE IF delay_time < HUB_RESET_TIMEOUT
                      THEN [r EXCEPT !.wdelay = wdelay,
                                     !.delay_time = delay_time]
                 ELSE ResetAfterTry([r EXCEPT !.wdelay = wdelay,
                                              !.delay_time = delay_time],
                              hub_port_wait_reset_result(r.superspeed, read),
                              post)
    /\ UNCHANGED resetFixed

\* the caller has the result
R_return ==
    /\ rst.pc = "done"
    /\ rst' = NoReset
    /\ UNCHANGED resetFixed

\* the steps of a call that is in progress
ResetRuns ==
    \/ \E status \in {"0"} \cup ControlErrors, post \in PostReads :
          R_set_port_feature(status, post)
    \/ \E read \in PortReads, post \in PostReads :
          R_hub_port_wait_reset(read, post)

NextReset ==
    \/ \E superspeed \in BOOLEAN, delay \in ResetDelays, warm \in BOOLEAN,
          read \in PostReads :
          R_hub_port_reset(superspeed, delay, warm, read)
    \/ ResetRuns
    \/ R_return

\* a call that has begun goes on: msleep returns and every request to the
\* hub completes, with a status or with an error
SpecReset == ResetInit /\ [][NextReset]_vars /\ WF_vars(ResetRuns)

\* the results hub_port_reset returns
ResetResults21 == {"0", "-EINVAL", "-ENOTCONN", "-EBUSY"} \cup ControlErrors

\* the step is a round of hub_port_wait_reset that found the reset bit set
\* and left the loop: the wait is over with delay_time at the bound
WaitTimesOut ==
    /\ rst.pc = "wait"
    /\ rst'.pc # "wait"
    /\ rst'.delay_time >= HUB_RESET_TIMEOUT

(***************************************************************************)
(* C21: the port reset wait ends with a typed result.  A wait that finds   *)
(* the reset bit set in every round leaves its loop once delay_time, the   *)
(* wait it has added up, reaches HUB_RESET_TIMEOUT, with -EBUSY, and not   *)
(* before; a failed status read ends the wait in the same round with the   *)
(* error of the read; hub_port_reset makes at most PORT_RESET_TRIES tries  *)
(* and every call returns, with one of the error codes or 0.               *)
(***************************************************************************)
C21_ResetWaitTerminates ==
    /\ [](rst.pc = "wait" =>
             /\ rst.delay_time < HUB_RESET_TIMEOUT
             /\ rst.slept <= rst.delay_time)
    /\ [][rst.pc = "wait" /\ rst'.pc = "wait" =>
             /\ rst'.delay_time > rst.delay_time
             /\ rst'.slept > rst.slept
             /\ rst'.slept <= HUB_RESET_TIMEOUT]_vars
    /\ [][WaitTimesOut =>
             /\ rst'.status = "-EBUSY"
             /\ rst.delay_time < HUB_RESET_TIMEOUT
             /\ rst'.slept <= HUB_RESET_TIMEOUT]_vars
    /\ [][rst.pc = "wait" /\ rst' # rst /\ rst'.last = "reset" =>
             (rst'.pc = "wait") = (rst'.delay_time < HUB_RESET_TIMEOUT)]_vars
    /\ [][rst.pc = "wait" /\ rst' # rst /\ rst'.last = "error" =>
             /\ rst'.pc # "wait"
             /\ rst'.status \in ControlErrors
             /\ rst'.slept = rst.slept + rst.wdelay]_vars
    /\ [](rst.pc # "idle" =>
             /\ rst.tries <= PORT_RESET_TRIES
             /\ rst.i <= PORT_RESET_TRIES)
    /\ [](rst.pc = "done" => rst.ret \in ResetResults21)
    /\ [](rst.pc = "done" /\ rst.i = PORT_RESET_TRIES =>
             rst.tries = PORT_RESET_TRIES)
    /\ (rst.pc \in {"try", "wait"}) ~> (rst.pc = "done")

\* the last of PORT_RESET_TRIES tries has timed out, the reset bit set in
\* every status read of its wait, and hub_port_reset has returned -EBUSY
C21_Witness ==
    /\ rst.pc = "done"
    /\ rst.ret = "-EBUSY"
    /\ rst.i = PORT_RESET_TRIES
    /\ rst.tries = PORT_RESET_TRIES
    /\ rst.delay_time >= HUB_RESET_TIMEOUT
    /\ rst.slept = HUB_RESET_TIMEOUT

(***************************************************************************)
(* SpecOwner: the device tree manager of SpecTree together with the users  *)
(* of usb_hub_claim_port, usb_hub_release_port and                         *)
(* usb_hub_release_all_ports.  An owner is a struct dev_state pointer.     *)
(***************************************************************************)
\* the number of owners (open usbfs files)
NOwners == 2
Owners == 1..NOwners
\* the port numbers a caller passes: 0 and one above the ports of a hub too
PortArgs == 0..(NPorts + 1)

\* find_port_owner: the return code; with 0 the owner is
\* hub->ports[port1 - 1]->port_owner
find_port_owner(hdev, port1) ==
    IF usb_hub_to_struct_hub(hdev) = NULL
       \/ state[hdev] = USB_STATE_NOTATTACHED
    THEN "-ENODEV"
    ELSE IF port1 = 0 \/ port1 > maxchild[hdev] THEN "-EINVAL"
    ELSE "0"

\* usb_hub_claim_port that does not look at the owner the port has
claim_port_taking_over(powner, owner) == [rc |-> "0", powner |-> owner]

\* usb_hub_claim_port after find_port_owner: the return code and the owner
claim_port(powner, owner) ==
    IF powner # NULL THEN [rc |-> "-EBUSY", powner |-> powner]
                     ELSE [rc |-> "0", powner |-> owner]

\* usb_hub_release_port after find_port_owner: the return code and the owner
release_port(powner, owner) ==
    IF powner # owner THEN [rc |-> "-ENOENT", powner |-> powner]
                      ELSE [rc |-> "0", powner |-> NULL]

ownerFixed == <<treeVars, db, hubst, port_enabled, lpm, callVars, enumVars>>

OwnerCall(op, hdev, port1, owner, rc) ==
    [NoCall EXCEPT !.op = op, !.dev = hdev, !.port1 = port1,
                   !.owner = owner, !.ret = rc]

\* usb_hub_claim_port(hdev, port1, owner)
O_usb_hub_claim_port(hdev, port1, owner) ==
    /\ alloc[hdev]
    /\ LET rc == find_port_owner(hdev, port1) IN
          IF rc # "0"
          THEN /\ call' = OwnerCall("usb_hub_claim_port", hdev, port1, owner, rc)
               /\ UNCHANGED port_owner
          ELSE LET r == claim_port(port_owner[hdev][port1], owner) IN
               /\ port_owner' = [port_owner EXCEPT ![hdev][port1] = r.powner]
               /\ call' = OwnerCall("usb_hub_claim_port", hdev, port1, owner,
                                    r.rc)
    /\ UNCHANGED ownerFixed

\* usb_hub_release_port(hdev, port1, owner)
O_usb_hub_release_port(hdev, port1, owner) ==
    /\ alloc[hdev]
    /\ LET rc == find_port_owner(hdev, port1) IN
          IF rc # "0"
          THEN /\ call' = OwnerCall("usb_hub_release_port", hdev, port1,
                                    owner, rc)
               /\ UNCHANGED port_owner
          ELSE LET r == release_port(port_owner[hdev][port1], owner) IN
               /\ port_owner' = [port_owner EXCEPT ![hdev][port1] = r.powner]
               /\ call' = OwnerCall("usb_hub_release_port", hdev, port1,
                                    owner, r.rc)
    /\ UNCHANGED ownerFixed

\* usb_hub_release_all_ports(hdev, owner)
O_usb_hub_release_all_ports(hdev, owner) ==
    /\ alloc[hdev]
    /\ port_owner' =
          IF usb_hub_to_struct_hub(hdev) = NULL THEN port_owner
          ELSE [port_owner EXCEPT ![hdev] =
                   [p \in Ports |-> IF p <= maxchild[hdev]
                                       /\ port_owner[hdev][p] = owner
                                    THEN NULL ELSE port_owner[hdev][p]]]
    /\ call' = OwnerCall("usb_hub_release_all_ports", hdev, 0, owner, "0")
    /\ UNCHANGED ownerFixed

\* the device that appears on port 1 of the root hub is a hub, the others
\* are not
NextOwner ==
    \/ \E hub \in Devs, port1 \in Ports :
          T_connect(hub, port1, hub = RootHub /\ port1 = 1, TRUE)
    \/ \E hdev \in Devs : T_hub_probe(hdev)
    \/ \E hdev \in {d \in Devs : maxchild[d] > 0} :
          T_set_device_state(hdev, USB_STATE_NOTATTACHED, Jiffies)
    \/ \E hub \in Devs, port1 \in Ports : T_usb_disconnect(hub, port1, Jiffies)
    \/ \E hdev \in Devs, port1 \in PortArgs, owner \in Owners :
          O_usb_hub_claim_port(hdev, port1, owner)
    \/ \E hdev \in Devs, port1 \in PortArgs, owner \in Owners :
          O_usb_hub_release_port(hdev, port1, owner)
    \/ \E hdev \in Devs, owner \in Owners :
          O_usb_hub_release_all_ports(hdev, owner)

SpecOwner == InitTree /\ [][NextOwner]_vars

\* the step is a call of usb_hub_claim_port or of usb_hub_release_port
ClaimCalled == call' # call /\ call'.op = "usb_hub_claim_port"
ReleaseCalledByOwner == call' # call /\ call'.op = "usb_hub_release_port"

\* the port of the hub exists and the hub is attached
PortValid(hdev, port1) ==
    /\ maxchild[hdev] > 0
    /\ state[hdev] # USB_STATE_NOTATTACHED
    /\ port1 \in 1..maxchild[hdev]

\* the owner of every port but the one of the call is as before
OtherOwnersKept(hdev, port1) ==
    \A h \in Devs, p \in Ports :
        <<h, p>> # <<hdev, port1>> => port_owner'[h][p] = port_owner[h][p]

(***************************************************************************)
(* C22: port ownership is exclusive.  usb_hub_claim_port of a port that    *)
(* has an owner returns -EBUSY, usb_hub_release_port by another than the   *)
(* owner returns -ENOENT, and both leave the owner as it is; a hub that is *)
(* missing or NOTATTACHED gives -ENODEV, and with the hub there a port     *)
(* number of 0 or above its ports gives -EINVAL; the owner of a port       *)
(* changes only from none to the claimant of a call that returns 0 and     *)
(* from an owner to none, by a release of that owner, for as long as the   *)
(* hub has its ports.                                                      *)
(***************************************************************************)
C22_PortOwnershipExclusive ==
    [][/\ (ClaimCalled \/ ReleaseCalledByOwner) =>
            LET hdev == call'.dev
                port1 == call'.port1
                owner == call'.owner
                rc == call'.ret
            IN /\ (maxchild[hdev] = 0 \/ state[hdev] = USB_STATE_NOTATTACHED)
                     => rc = "-ENODEV"
               /\ (maxchild[hdev] > 0 /\ state[hdev] # USB_STATE_NOTATTACHED
                   /\ (port1 = 0 \/ port1 > maxchild[hdev]))
                     => rc = "-EINVAL"
               /\ PortValid(hdev, port1) =>
                     LET powner == port_owner[hdev][port1] IN
                     /\ OtherOwnersKept(hdev, port1)
                     /\ ClaimCalled =>
                           IF powner # NULL
                           THEN rc = "-EBUSY"
                                /\ port_owner'[hdev][port1] = powner
                           ELSE rc = "0"
                                /\ port_owner'[hdev][port1] = owner
                     /\ ReleaseCalledByOwner =>
                           IF powner # owner
                           THEN rc = "-ENOENT"
                                /\ port_owner'[hdev][port1] = powner
                           ELSE rc = "0"
                                /\ port_owner'[hdev][port1] = NULL
               /\ ~PortValid(hdev, port1) => port_owner' = port_owner
       /\ \A h \in Devs, p \in Ports :
             port_owner'[h][p] # port_owner[h][p] /\ maxchild'[h] > 0 =>
                \/ /\ port_owner[h][p] = NULL
                   /\ ClaimCalled
                   /\ call'.ret = "0"
                   /\ port_owner'[h][p] = call'.owner
                \/ /\ port_owner[h][p] # NULL
                   /\ port_owner'[h][p] = NULL
                   /\ call'.op \in {"usb_hub_release_port",
                                    "usb_hub_release_all_ports"}
                   /\ call'.owner = port_owner[h][p]
      ]_vars

\* a second owner has just been refused a port of an external hub that its
\* first owner still holds, while the other port of that hub has changed
\* hands
C22_Witness ==
    /\ call.op = "usb_hub_claim_port"
    /\ call.ret = "-EBUSY"
    /\ call.dev # RootHub
    /\ call.port1 = 1
    /\ call.owner = 2
    /\ port_owner[call.dev][1] = 1
    /\ port_owner[call.dev][2] = 2

\* usb_device_is_owned that reports no device as owned
usb_device_is_owned_never(udev) == FALSE

\* usb_device_is_owned
usb_device_is_owned(udev) ==
    IF state[udev] = USB_STATE_NOTATTACHED \/ parent[udev] = NULL THEN FALSE
    ELSE IF usb_hub_to_struct_hub(parent[udev]) = NULL THEN FALSE
    ELSE port_owner[parent[udev]][portnum[udev]] # NULL

\* the step changes the child of a port that has an owner, on a hub that
\* keeps its ports
OwnedPortReconfigured(h, p) ==
    /\ maxchild[h] > 0
    /\ maxchild'[h] > 0
    /\ port_owner[h][p] # NULL
    /\ child'[h][p] # child[h][p]

(***************************************************************************)
(* C23 as stated: while a port has an owner, the hub driver does not       *)
(* change what is attached to it: no child is disconnected from the port   *)
(* and none is enumerated on it.                                           *)
(***************************************************************************)
C23_OwnedPortNotReconfigured ==
    [][\A h \in Devs, p \in Ports : ~OwnedPortReconfigured(h, p)]_vars

(***************************************************************************)
(* C23: while a port has an owner, the hub driver disconnects its child    *)
(* and enumerates a new device on it as on any other port; that leaves the *)
(* owner of the port as it is, whose only effect is that                   *)
(* usb_device_is_owned is true of the device enumerated on the port.       *)
(***************************************************************************)
C23_OwnedPortKeepsOwner ==
    [][\A h \in Devs, p \in Ports :
          OwnedPortReconfigured(h, p) =>
             /\ port_owner'[h][p] = port_owner[h][p]
             /\ call'.op \in {"none", "usb_disconnect"}
             /\ child'[h][p] # NULL =>
                   \A udev \in Devs :
                      udev = child'[h][p] => usb_device_is_owned(udev)'
      ]_vars

\* a device has just been enumerated on a port of the external hub that
\* an owner had claimed before
C23_Witness ==
    /\ call = NoCall
    /\ \E p \in Ports :
          /\ port_owner[RootHub + 1][p] # NULL
          /\ child[RootHub + 1][p] = RootHub + 2
          /\ state[RootHub + 2] = USB_STATE_CONFIGURED
          /\ maxchild[RootHub + 1] > 0

(***************************************************************************)
(* SpecPorts: the containment of hub_port_connect_change.                  *)
(***************************************************************************)
\* positions of khubd inside hub_port_connect_change
ConnectChangePcs == {"pcc", "disc", "alloc"} \cup AttemptPcs

\* a step khubd takes inside hub_port_connect_change
ConnectChangeStep ==
    /\ KH.pc \in ConnectChangePcs
    /\ th'["khubd"] # th["khubd"]

\* the devices of the subtree of the port of the call: the child of the
\* port with its descendants and the device the call enumerates
PortSubtree ==
    (IF child[KH.hub][KH.port1] # NULL
     THEN Subtree(child[KH.hub][KH.port1]) ELSE {})
    \cup {d \in Devs : d = KH.udev \/ d = th'["khubd"].udev}

\* what the driver keeps of one hub: struct usb_hub with its bits, the
\* child pointers of the ports and the ports that are enabled
HubStateOf(d) ==
    <<hubst[d], child[d], maxchild[d], busy_bits[d], disconnected[d],
      {e \in port_enabled : e[1] = d}>>

\* the other ports of the hub of the call keep their child pointer, change
\* bit and removed bit
OtherPortsKept ==
    \A q \in Ports \ {KH.port1} :
       /\ child'[KH.hub][q] = child[KH.hub][q]
       /\ (q \in hubst'[KH.hub].change_bits)
             <=> (q \in hubst[KH.hub].change_bits)
       /\ (q \in hubst'[KH.hub].removed_bits)
             <=> (q \in hubst[KH.hub].removed_bits)

\* the bits of the address map that change are addresses of devices of the
\* subtree of the port
MapBitsOfSubtree ==
    ((devicemap \ devicemap') \cup (devicemap' \ devicemap))
       \subseteq ({devnum[d] : d \in PortSubtree}
                  \cup {devnum'[d] : d \in PortSubtree})

\* C24 as stated: a step of hub_port_connect_change for port p of hub h
\* changes no other port's child pointer, change bit or removed bit on h,
\* no state of any other hub and no address-map bit other than those of
\* the devices in the subtree of p.
C24_FailuresContained ==
    [][ConnectChangeStep =>
          /\ OtherPortsKept
          /\ \A d \in Devs \ {KH.hub} : HubStateOf(d)' = HubStateOf(d)
          /\ MapBitsOfSubtree
      ]_vars

\* C24: a step of hub_port_connect_change for port p of hub h changes no
\* other port's child pointer, change bit or removed bit on h, no state of
\* any hub outside the subtree of p (the hubs below p are disconnected with
\* the old child, and a new child that is a hub is bound), and no
\* address-map bit other than those of the devices in the subtree of p.
C24_FailuresContainedOutsideSubtree ==
    [][ConnectChangeStep =>
          /\ OtherPortsKept
          /\ \A d \in Devs \ ({KH.hub} \cup PortSubtree) :
                HubStateOf(d)' = HubStateOf(d)
          /\ MapBitsOfSubtree
      ]_vars

\* an attempt on port 1 of the root hub has failed while port 2 holds a hub
\* and has its change bit and its removed bit set
C24_Witness ==
    /\ KH.pc = "loop"
    /\ KH.hub = RootHub
    /\ KH.port1 = 1
    /\ KH.status # "0"
    /\ child[RootHub][2] # NULL
    /\ usb_hub_to_struct_hub(child[RootHub][2]) # NULL
    /\ 2 \in hubst[RootHub].change_bits
    /\ 2 \in hubst[RootHub].removed_bits

(***************************************************************************)
(* SpecBusy: the loop of hub_events over the ports of one hub against the  *)
(* contexts that set the busy bit of a port (usb_port_resume and           *)
(* usb_reset_device) and those that report events: hub_irq,                *)
(* usb_wakeup_notification and hub_port_logical_disconnect.  call is the   *)
(* last turn of the loop: its port, what it did (ret), and in skipped the  *)
(* ports that a turn has passed over while they were busy with their       *)
(* change bit set.                                                         *)
(***************************************************************************)
\* what no action of SpecBusy changes
busyFixed == <<treeVars, db, port_enabled, lpm, port_owner, callVars,
               disconnected, devlock, usb_address0_mutex>>

\* test_bit(i, hub->busy_bits) that never finds the bit
port_is_busy_never(busy, i) == FALSE

\* test_bit(i, hub->busy_bits)
port_is_busy(busy, i) == i \in busy

\* a turn that tests the wakeup and the event bit and leaves them set
test_and_clear_bits_kept(hub, i) == hub

\* test_and_clear_bit(i, hub->wakeup_bits) and
\* test_and_clear_bit(i, hub->event_bits) of a turn of hub_events
test_and_clear_bits(hub, i) ==
    [hub EXCEPT !.wakeup_bits = @ \ {i}, !.event_bits = @ \ {i}]

\* hub_irq: the bits of the status URB are stored, khubd is kicked
B_hub_irq(bits) ==
    /\ hubst' = [hubst EXCEPT ![TheHub].event_bits =
                    store_event_bits(@, bits)]
    /\ hub_event_list' = kick_khubd(TheHub, hub_event_list)
    /\ UNCHANGED <<busyFixed, busy_bits, th, call>>

\* usb_wakeup_notification(hdev, portnum)
B_usb_wakeup_notification(port1) ==
    /\ hubst' = [hubst EXCEPT ![TheHub].wakeup_bits = @ \cup {port1}]
    /\ hub_event_list' = kick_khubd(TheHub, hub_event_list)
    /\ UNCHANGED <<busyFixed, busy_bits, th, call>>

\* hub_port_logical_disconnect(hub, port1), called by usb_remove_device, by
\* usb_port_resume and, the port busy, by usb_reset_and_verify_device
B_hub_port_logical_disconnect(port1) ==
    /\ hubst' = [hubst EXCEPT ![TheHub].change_bits = @ \cup {port1}]
    /\ hub_event_list' = kick_khubd(TheHub, hub_event_list)
    /\ UNCHANGED <<busyFixed, busy_bits, th, call>>

\* set_bit(port1, hub->busy_bits) of usb_port_resume and usb_reset_device
B_set_busy(port1) ==
    /\ port1 \notin busy_bits[TheHub]
    /\ busy_bits' = [busy_bits EXCEPT ![TheHub] = @ \cup {port1}]
    /\ UNCHANGED <<busyFixed, hubst, hub_event_list, th, call>>

\* clear_bit(port1, hub->busy_bits) of the same callers
B_clear_busy(port1) ==
    /\ port1 \in busy_bits[TheHub]
    /\ busy_bits' = [busy_bits EXCEPT ![TheHub] = @ \ {port1}]
    /\ UNCHANGED <<busyFixed, hubst, hub_event_list, th, call>>

\* hub_events takes the hub off hub_event_list and starts the pass
B_hub_events_dequeue ==
    /\ KH.pc = "idle"
    /\ hub_event_list # << >>
    /\ hub_event_list' = Tail(hub_event_list)
    /\ th' = [th EXCEPT !["khubd"] =
                [Idle EXCEPT !.pc = "port", !.hub = Head(hub_event_list),
                             !.port1 = 1]]
    /\ UNCHANGED <<busyFixed, busy_bits, hubst, call>>

\* hub_events: one turn of the loop over the ports; read_ok is the outcome
\* of hub_port_status, c_connection the connection change bit it reads.
\* hub_port_connect_change clears the change bit of the port
B_hub_events_port(read_ok, c_connection) ==
    /\ KH.pc = "port"
    /\ IF KH.port1 > NPorts
       THEN /\ th' = [th EXCEPT !["khubd"] = Idle]
            /\ UNCHANGED <<hubst, call>>
       ELSE LET i == KH.port1
                hub == hubst[KH.hub]
                connect_change == i \in hub.change_bits
                wakeup_change == i \in hub.wakeup_bits
                event == i \in hub.event_bits
                tested == test_and_clear_bits(hub, i)
                turn == [NoCall EXCEPT !.op = "hub_events", !.dev = KH.hub,
                                       !.port1 = i]
            IN /\ th' = [th EXCEPT !["khubd"].port1 = i + 1]
               /\ IF port_is_busy(busy_bits[KH.hub], i)
                  THEN /\ call' = [turn EXCEPT
                                     !.ret = "continue_busy",
                                     !.skipped =
                                        IF connect_change
                                        THEN call.skipped \cup {i}
                                        ELSE call.skipped \ {i}]
                       /\ UNCHANGED hubst
                  ELSE IF ~event /\ ~connect_change /\ ~wakeup_change
                  THEN /\ call' = [turn EXCEPT
                                     !.ret = "continue",
                                     !.skipped = call.skipped \ {i}]
                       /\ hubst' = [hubst EXCEPT ![KH.hub] = tested]
                  ELSE IF ~read_ok
                  THEN /\ call' = [turn EXCEPT !.ret = "read_failed",
                                               !.skipped = call.skipped]
                       /\ hubst' = [hubst EXCEPT ![KH.hub] = tested]
                  ELSE IF connect_change \/ c_connection
                  THEN /\ call' = [turn EXCEPT !.ret = "connect_change",
                                               !.skipped = call.skipped]
                       /\ hubst' = clear_port_bits(
                                      [hubst EXCEPT ![KH.hub] = tested],
                                      KH.hub, i, FALSE)
                  ELSE /\ call' = [turn EXCEPT
                                     !.ret = "port_status",
                                     !.skipped = call.skipped \ {i}]
                       /\ hubst' = [hubst EXCEPT ![KH.hub] = tested]
    /\ UNCHANGED <<busyFixed, busy_bits, hub_event_list>>

NextBusy ==
    \/ \E bits \in SUBSET Ports : B_hub_irq(bits)
    \/ \E port1 \in Ports : B_usb_wakeup_notification(port1)
    \/ \E port1 \in Ports : B_hub_port_logical_disconnect(port1)
    \/ \E port1 \in Ports : B_set_busy(port1)
    \/ \E port1 \in Ports : B_clear_busy(port1)
    \/ B_hub_events_dequeue
    \/ \E read_ok \in BOOLEAN, c_connection \in BOOLEAN :
          B_hub_events_port(read_ok, c_connection)

SpecBusy == Init /\ [][NextBusy]_vars

\* the turn of the loop of hub_events for port i
TurnFor(i) ==
    /\ KH.pc = "port"
    /\ KH.port1 = i
    /\ th' # th

\* the event, change and wakeup bit of port i
PortBits(i) ==
    <<i \in hubst[TheHub].event_bits, i \in hubst[TheHub].change_bits,
      i \in hubst[TheHub].wakeup_bits>>

\* C25: a turn of hub_events for a port whose busy bit is set reads no
\* status, processes no connect change and leaves the event, change and
\* wakeup bit of the port as they are; a turn for a port that is not busy
\* and has one of its bits pending reads the port status and, the read
\* succeeding with the change bit set, runs the connect-change processing
\* that clears the bit; and nothing else clears a change bit, so that a
\* connect change that arrived while the port was busy waits for a later
\* pass.
C25_BusyPortSkipped ==
    [][\A i \in Ports :
          /\ (TurnFor(i) /\ i \in busy_bits[TheHub])
                => /\ call'.ret = "continue_busy"
                   /\ PortBits(i)' = PortBits(i)
          /\ (TurnFor(i) /\ i \notin busy_bits[TheHub]
                /\ PortBits(i) # <<FALSE, FALSE, FALSE>>)
                => /\ call'.ret \in {"read_failed", "connect_change",
                                      "port_status"}
                   /\ (i \in hubst[TheHub].change_bits
                         /\ call'.ret # "read_failed")
                         => /\ call'.ret = "connect_change"
                            /\ i \notin hubst'[TheHub].change_bits
          /\ (i \in hubst[TheHub].change_bits
                /\ i \notin hubst'[TheHub].change_bits)
                => /\ TurnFor(i)
                   /\ i \notin busy_bits[TheHub]
                   /\ call'.ret = "connect_change"
      ]_vars

\* a pass has run the connect-change processing for a port that an earlier
\* turn had passed over, busy, with its change bit set
C25_Witness ==
    /\ call.op = "hub_events"
    /\ call.ret = "connect_change"
    /\ call.port1 \in call.skipped

(***************************************************************************)
(* SpecInit: one call of hub_port_init, from the first port reset to the   *)
(* address.  hpi is the call: pc its position, i the index of the loop of  *)
(* the descriptor tries, r the result of the last 64-byte probe, resets    *)
(* the number of hub_port_reset calls made, probes the idVendor and the    *)
(* result of every probe made, ret what the call returned.                 *)
(***************************************************************************)
GET_DESCRIPTOR_TRIES == 2
\* the idVendor after which hub_port_init does not reset the port again
SkipResetVendor == 6666

\* what the 64-byte buffer holds in idVendor after the probe; after a probe
\* that failed it is what kmalloc left there
IdVendors == {SkipResetVendor, 2996, 0}
ProbeResults == {"0", "-EPROTO", "-ENODEV"}
PortResetResults == {"0", "-ENOTCONN", "-ENODEV"}

InitInit ==
    /\ TreeInit
    /\ EnumInit
    /\ call = NoCall
    /\ db = NoDebounce

\* what no action of SpecInit changes
initFixed == <<treeVars, call, db, hubst, port_enabled, lpm, port_owner,
               rst, lpm_path, link, pw, pm_usage_cnt, att, hub_event_list, disconnected, busy_bits,
               devlock, usb_address0_mutex, th>>

\* the probe is followed by a port reset whatever it read
probe_needs_reset_always(idvendor) == TRUE

\* if (idvendor != 0x1a0a): the probe is followed by a port reset
probe_needs_reset(idvendor) == idvendor # SkipResetVendor

\* goto fail, or the end of the function
InitReturn(h, ret) == [h EXCEPT !.pc = "done", !.ret = ret]

\* continue in the loop of the descriptor tries with retval set, or, after
\* the last try, if (retval) goto fail
InitContinue(h, retval) ==
    IF h.i + 1 < GET_DESCRIPTOR_TRIES
    THEN [h EXCEPT !.pc = IF h.new_scheme THEN "probe" ELSE "address",
                   !.i = @ + 1]
    ELSE InitReturn(h, retval)

\* hub_port_init is called and makes its first hub_port_reset
I_hub_port_init(new_scheme, retval) ==
    /\ hpi.pc \in {"idle", "done"}
    /\ hpi' = LET h == [NoInit EXCEPT !.new_scheme = new_scheme,
                                      !.resets = 1]
              IN IF retval # "0" THEN InitReturn(h, retval)
                 ELSE [h EXCEPT !.pc = IF new_scheme THEN "probe"
                                       ELSE "address"]
    /\ UNCHANGED initFixed

\* the new scheme: kmalloc of the buffer and the three tries of the
\* 64-byte read, r the result of the last of them
I_probe(kmalloc_ok, r, idvendor) ==
    /\ hpi.pc = "probe"
    /\ hpi' = IF ~kmalloc_ok THEN InitContinue(hpi, "-ENOMEM")
              ELSE LET h == [hpi EXCEPT
                               !.r = r,
                               !.probes = Append(@, [r |-> r,
                                                     idvendor |-> idvendor])]
                   IN IF probe_needs_reset(idvendor)
                      THEN [h EXCEPT !.pc = "probe_reset"]
                      ELSE IF r # "0" THEN InitContinue(h, "-EMSGSIZE")
                      ELSE [h EXCEPT !.pc = "address"]
    /\ UNCHANGED initFixed

\* the hub_port_reset after the probe
I_probe_reset(retval, speed_changed) ==
    /\ hpi.pc = "probe_reset"
    /\ hpi' = LET h == [hpi EXCEPT !.resets = @ + 1]
              IN IF retval # "0" THEN InitReturn(h, retval)
                 ELSE IF speed_changed THEN InitReturn(h, "-ENODEV")
                 ELSE IF h.r # "0" THEN InitContinue(h, "-EMSGSIZE")
                 ELSE [h EXCEPT !.pc = "address"]
    /\ UNCHANGED initFixed

\* hub_set_address with its tries; under the new scheme
\* the loop of the descriptor tries ends here, under the old one the first
\* 8 bytes of the descriptor are read, and a failed read is tried again
I_set_address(ok, read8_ok) ==
    /\ hpi.pc = "address"
    /\ hpi' = IF ~ok THEN InitReturn(hpi, "-EPROTO")
              ELSE IF hpi.new_scheme \/ read8_ok
              THEN [hpi EXCEPT !.pc = "addressed"]
              ELSE InitContinue(hpi, "-EMSGSIZE")
    /\ UNCHANGED initFixed

\* the rest of hub_port_init: the maxpacket size and the whole descriptor
I_finish(ok) ==
    /\ hpi.pc = "addressed"
    /\ hpi' = InitReturn(hpi, IF ok THEN "0" ELSE "-ENOMSG")
    /\ UNCHANGED initFixed

NextInit ==
    \/ \E new_scheme \in BOOLEAN, retval \in PortResetResults :
          I_hub_port_init(new_scheme, retval)
    \/ \E kmalloc_ok \in BOOLEAN, r \in ProbeResults, idvendor \in IdVendors :
          I_probe(kmalloc_ok, r, idvendor)
    \/ \E retval \in PortResetResults, speed_changed \in BOOLEAN :
          I_probe_reset(retval, speed_changed)
    \/ \E ok \in BOOLEAN, read8_ok \in BOOLEAN : I_set_address(ok, read8_ok)
    \/ \E ok \in BOOLEAN : I_finish(ok)

SpecInit == InitInit /\ [][NextInit]_vars

\* the probes of the call that saw a vendor-ID mismatch
Mismatches ==
    {k \in 1..Len(hpi.probes) : hpi.probes[k].idvendor # SkipResetVendor}

\* the resets a call has made are its first one and one for every probe
\* that saw a mismatch, the reset of the last probe being due while the
\* call stands before it; and addressing goes on only after that reset
OneResetPerMismatch ==
    /\ hpi.pc \notin {"idle", "probe_reset"}
          => hpi.resets = 1 + Cardinality(Mismatches)
    /\ hpi.pc = "probe_reset"
          => /\ hpi.resets = Cardinality(Mismatches)
             /\ Len(hpi.probes) \in Mismatches
    /\ hpi.pc \in {"address", "addressed"} /\ hpi.new_scheme
          => /\ hpi.probes # << >>
             /\ hpi.probes[Len(hpi.probes)].r = "0"

\* C26 as stated: under the new scheme a mismatch in a probe triggers
\* exactly one more port reset and no mismatch none, so a successful run
\* with a mismatch on the first probe makes two port resets in total and a
\* run without mismatch one.
C26_MismatchResetsOnce ==
    hpi.new_scheme =>
       /\ OneResetPerMismatch
       /\ (hpi.pc = "done" /\ hpi.ret = "0" /\ 1 \in Mismatches)
             => hpi.resets = 2
       /\ (hpi.pc = "done" /\ Mismatches = {}) => hpi.resets = 1

\* C26: under the new scheme a mismatch in a probe triggers exactly one
\* more port reset and no mismatch none, so a successful run with a
\* mismatch on the first probe and none on a second probe makes two port
\* resets in total, one with a mismatch on both probes makes three, and a
\* run without mismatch one.
C26_MismatchResetsOncePerProbe ==
    hpi.new_scheme =>
       /\ OneResetPerMismatch
       /\ (hpi.pc = "done" /\ hpi.ret = "0" /\ Mismatches = {1})
             => hpi.resets = 2
       /\ (hpi.pc = "done" /\ hpi.ret = "0" /\ Mismatches = {1, 2})
             => hpi.resets = 3
       /\ (hpi.pc = "done" /\ Mismatches = {}) => hpi.resets = 1

\* a run has succeeded after one probe, which saw a mismatch
C26_Witness ==
    /\ hpi.new_scheme
    /\ hpi.pc = "done"
    /\ hpi.ret = "0"
    /\ Len(hpi.probes) = 1
    /\ Mismatches = {1}
    /\ hpi.resets = 2

(***************************************************************************)
(* SpecLpmParams: usb_set_lpm_parameters along one path of SuperSpeed      *)
(* devices.  lpm_path is the path from the root hub down, every device but *)
(* the last a hub: of each device its exit latencies in microseconds       *)
(* (bU1devExitLat, bU2DevExitLat of its SuperSpeed capability), the header *)
(* decode latency of its hub descriptor, lpm_capable, and the parameters   *)
(* u1_params and u2_params in nanoseconds.                                 *)
(***************************************************************************)
\* devices on the path, the root hub included
MaxDepth == 4
U1Latencies == {1, 10}
U2Latencies == {2, 200}
HdrDecLats == {0, 4}

NoParams == [mel |-> 0, pel |-> 0, sel |-> 0]

\* what no action of SpecLpmParams changes
paramsFixed == <<treeVars, call, db, hubst, port_enabled, lpm, port_owner,
                 rst, hpi, link, pw, pm_usage_cnt, att, hub_event_list, disconnected, busy_bits,
                 devlock, usb_address0_mutex, th>>

ParamsInit ==
    /\ TreeInit
    /\ EnumInit
    /\ call = NoCall
    /\ db = NoDebounce

\* usb_set_lpm_mel
usb_set_lpm_mel(hub_mel, bHubHdrDecLat, udev_exit_latency, hub_exit_latency) ==
    LET device_mel == udev_exit_latency * 1000
        hub_own_mel == hub_exit_latency * 1000
    IN hub_mel + bHubHdrDecLat * 100
         + (IF device_mel > hub_own_mel THEN device_mel ELSE hub_own_mel)

\* usb_set_lpm_pel that adds the latency of the hubs to that of the first
\* link
usb_set_lpm_pel_added(udev_exit_latency, hub_params_pel, hub_exit_latency, port_to_port_exit_latency) ==
    (IF udev_exit_latency > hub_exit_latency
     THEN udev_exit_latency * 1000 ELSE hub_exit_latency * 1000)
      + port_to_port_exit_latency * 1000 + hub_params_pel

\* usb_set_lpm_pel
usb_set_lpm_pel(udev_exit_latency, hub_params_pel, hub_exit_latency, port_to_port_exit_latency) ==
    LET first_link_pel == IF udev_exit_latency > hub_exit_latency
                          THEN udev_exit_latency * 1000
                          ELSE hub_exit_latency * 1000
        hub_pel == port_to_port_exit_latency * 1000 + hub_params_pel
    IN IF first_link_pel > hub_pel THEN first_link_pel ELSE hub_pel

\* usb_set_lpm_sel without the time t4
usb_set_lpm_sel_without_t4(pel, num_hubs) ==
    pel + (IF num_hubs > 0 THEN 2100 + 250 * (num_hubs - 1) ELSE 0)

\* usb_set_lpm_sel, num_hubs the hubs between the device and the root port
usb_set_lpm_sel(pel, num_hubs) ==
    LET t2 == IF num_hubs > 0 THEN 2100 + 250 * (num_hubs - 1) ELSE 0
    IN (pel + t2) + 250 * num_hubs

\* the loop of usb_set_lpm_sel: the ancestors of the device at position k
\* of the path that have a parent themselves
NumHubs(k) == Cardinality({j \in 1..(k - 1) : j > 1})

\* the port-to-port delay usb_set_lpm_parameters passes for U2
U2PortToPortDelay(hub_u1_del, hub_u2_del) ==
    IF hub_u2_del > hub_u1_del THEN 1 + hub_u2_del - hub_u1_del
    ELSE 1 + hub_u1_del

\* usb_set_lpm_parameters of a device below the hub hubdev, at position k
SetLpmParameters(udev, hubdev, k) ==
    IF ~udev.lpm_capable THEN udev
    ELSE LET u1_pel == usb_set_lpm_pel(udev.u1_del, hubdev.u1_params.pel,
                                       hubdev.u1_del, 1)
             u2_pel == usb_set_lpm_pel(udev.u2_del, hubdev.u2_params.pel,
                                       hubdev.u2_del,
                                       U2PortToPortDelay(hubdev.u1_del,
                                                         hubdev.u2_del))
         IN [udev EXCEPT
               !.u1_params =
                  [mel |-> usb_set_lpm_mel(hubdev.u1_params.mel,
                                           hubdev.hdr_dec_lat, udev.u1_del,
                                           hubdev.u1_del),
                   pel |-> u1_pel,
                   sel |-> usb_set_lpm_sel(u1_pel, NumHubs(k))],
               !.u2_params =
                  [mel |-> usb_set_lpm_mel(hubdev.u2_params.mel,
                                           hubdev.hdr_dec_lat, udev.u2_del,
                                           hubdev.u2_del),
                   pel |-> u2_pel,
                   sel |-> usb_set_lpm_sel(u2_pel, NumHubs(k))]]

\* the root hub is registered: hub_port_init is not run for it and its
\* parameters stay 0
P_register_root_hub(lpm_capable, u1_del, u2_del, hdr_dec_lat) ==
    /\ lpm_path = << >>
    /\ lpm_path' = <<[lpm_capable |-> lpm_capable, u1_del |-> u1_del,
                      u2_del |-> u2_del, hdr_dec_lat |-> hdr_dec_lat,
                      u1_params |-> NoParams, u2_params |-> NoParams]>>
    /\ UNCHANGED paramsFixed

\* hub_port_init of a SuperSpeed device below the last hub of the path,
\* after usb_get_bos_descriptor: lpm_capable = usb_device_supports_lpm,
\* then usb_set_lpm_parameters
P_usb_set_lpm_parameters(ss_cap, u1_del, u2_del, hdr_dec_lat) ==
    /\ lpm_path # << >>
    /\ Len(lpm_path) < MaxDepth
    /\ LET hubdev == lpm_path[Len(lpm_path)]
           udev == [lpm_capable |-> ss_cap /\ hubdev.lpm_capable,
                    u1_del |-> u1_del, u2_del |-> u2_del,
                    hdr_dec_lat |-> hdr_dec_lat,
                    u1_params |-> NoParams, u2_params |-> NoParams]
       IN lpm_path' = Append(lpm_path,
                             SetLpmParameters(udev, hubdev,
                                              Len(lpm_path) + 1))
    /\ UNCHANGED paramsFixed

NextLpmParams ==
    \/ \E lpm_capable \in BOOLEAN, u1_del \in U1Latencies,
          u2_del \in U2Latencies, hdr_dec_lat \in HdrDecLats :
          P_register_root_hub(lpm_capable, u1_del, u2_del, hdr_dec_lat)
    \/ \E ss_cap \in BOOLEAN, u1_del \in U1Latencies,
          u2_del \in U2Latencies, hdr_dec_lat \in HdrDecLats :
          P_usb_set_lpm_parameters(ss_cap, u1_del, u2_del, hdr_dec_lat)

SpecLpmParams == ParamsInit /\ [][NextLpmParams]_vars

\* the greater of two numbers
Max2(a, b) == IF a >= b THEN a ELSE b

\* the devices of the path whose parameters usb_set_lpm_parameters has set
LpmDevices == {k \in 2..Len(lpm_path) : lpm_path[k].lpm_capable}

\* SEL = PEL + 2100 + 250*(h-1) + 250*h for h >= 1 and SEL = PEL for h = 0,
\* h = k - 2 the external hubs above the device at position k
SelFormula ==
    \A k \in LpmDevices :
       LET h == k - 2
           d == lpm_path[k]
           overhead == IF h >= 1 THEN 2100 + 250 * (h - 1) + 250 * h ELSE 0
       IN /\ d.u1_params.sel = d.u1_params.pel + overhead
          /\ d.u2_params.sel = d.u2_params.pel + overhead

FirstLinkU1(k) == Max2(lpm_path[k].u1_del, lpm_path[k - 1].u1_del) * 1000
FirstLinkU2(k) == Max2(lpm_path[k].u2_del, lpm_path[k - 1].u2_del) * 1000
HubsU1(k) == 1 * 1000 + lpm_path[k - 1].u1_params.pel
HubsU2(k) ==
    U2PortToPortDelay(lpm_path[k - 1].u1_del, lpm_path[k - 1].u2_del) * 1000
      + lpm_path[k - 1].u2_params.pel

LinkStates == {"U1", "U2"}
\* what hcd->driver->enable_usb3_lpm_timeout returns
HcdTimeouts == {-19, 0, 10, 200}
\* bU1devExitLat or bU2DevExitLat of the device
ExitLatencies == {0, 10}

LinkStateInit ==
    /\ TreeInit
    /\ EnumInit
    /\ call = NoCall
    /\ db = NoDebounce

\* what no action of SpecLinkState changes
linkFixed == <<treeVars, call, db, hubst, port_enabled, lpm, port_owner,
               rst, hpi, lpm_path, pw, pm_usage_cnt, att, hub_event_list, disconnected, busy_bits,
               devlock, usb_address0_mutex, th>>

\* the stored timeout and the timeout of the port for a link state
StoredTimeout(l, lstate) == IF lstate = "U1" THEN l.u1_timeout ELSE l.u2_timeout
PortTimeout(l, lstate) == IF lstate = "U1" THEN l.port_u1 ELSE l.port_u2

\* a call starts: its inputs and the values before it are recorded
LinkCall(l, op, lstate, timeout, reserved, actconfig, configured) ==
    [l EXCEPT !.op = op, !.state = lstate, !.timeout = timeout,
              !.reserved = reserved,
              !.actconfig = actconfig, !.configured = configured,
              !.asked = FALSE, !.programmed = "none", !.sent = {},
              !.stored_before = StoredTimeout(l, lstate),
              !.port_before = PortTimeout(l, lstate),
              !.hcd_before = l.hcd]

\* usb_set_lpm_timeout that stores the timeout whatever the port answers
usb_set_lpm_timeout_stored_always(l, lstate, timeout, port_ok) ==
    LET s == [l EXCEPT !.sent = @ \cup {"SET_PORT_FEATURE"},
                       !.programmed = IF port_ok THEN "ok" ELSE "failed"]
    IN IF lstate = "U1" THEN [s EXCEPT !.u1_timeout = timeout]
       ELSE [s EXCEPT !.u2_timeout = timeout]

\* usb_set_lpm_timeout: a reserved U1 timeout is refused, set_port_feature
\* programs the port, and the timeout is stored when that succeeded
usb_set_lpm_timeout(l, lstate, timeout, port_ok) ==
    IF lstate = "U1" /\ l.reserved
    THEN [l EXCEPT !.programmed = "refused"]
    ELSE LET s == [l EXCEPT !.sent = @ \cup {"SET_PORT_FEATURE"}]
         IN IF ~port_ok THEN [s EXCEPT !.programmed = "failed"]
            ELSE IF lstate = "U1"
            THEN [s EXCEPT !.programmed = "ok", !.u1_timeout = timeout,
                           !.port_u1 = timeout]
            ELSE [s EXCEPT !.programmed = "ok", !.u2_timeout = timeout,
                           !.port_u2 = timeout]

\* usb_set_device_initiated_lpm: the request is sent to a configured device
usb_set_device_initiated_lpm(l, enable) ==
    IF ~l.configured THEN l
    ELSE [l EXCEPT !.sent = @ \cup {IF enable THEN "SET_FEATURE"
                                    ELSE "CLEAR_FEATURE"}]

\* usb_enable_link_state(hcd, udev, state): mel is the exit latency of the
\* device for the state, sel_ok the outcome of usb_req_set_sel, timeout the
\* answer of the host controller, port_ok the outcome of set_port_feature
K_usb_enable_link_state(lstate, mel, sel_ok, timeout, reserved, port_ok, actconfig, configured) ==
    \* only a positive timeout can be above the greatest one
    /\ reserved => timeout > 0
    /\ link' =
          LET l == LinkCall(link, "enable", lstate, timeout, reserved,
                            actconfig, configured)
          IN IF mel = 0 THEN l
             ELSE IF ~sel_ok THEN [l EXCEPT !.sent = {"SET_SEL"}]
             ELSE LET a == [l EXCEPT !.sent = {"SET_SEL"}, !.asked = TRUE,
                                     !.hcd = IF timeout > 0
                                             THEN @ \cup {lstate} ELSE @]
                  IN IF timeout = 0 THEN a
                     ELSE IF timeout < 0 THEN a
                     ELSE LET p == usb_set_lpm_timeout(a, lstate, timeout,
                                                       port_ok)
                          IN IF p.programmed # "ok"
                             THEN [p EXCEPT
                                     !.sent = @ \cup {"DISABLE_TIMEOUT"},
                                     !.hcd = @ \ {lstate}]
                             ELSE IF actconfig
                             THEN usb_set_device_initiated_lpm(p, TRUE)
                             ELSE p
    /\ UNCHANGED linkFixed

\* usb_disable_link_state(hcd, udev, state)
K_usb_disable_link_state(lstate, port_ok, actconfig, configured) ==
    /\ link' =
          LET l == LinkCall(link, "disable", lstate, 0, FALSE, actconfig,
                            configured)
              p == usb_set_lpm_timeout(l, lstate, 0, port_ok)
          IN IF p.programmed # "ok" THEN p
             ELSE LET d == usb_set_device_initiated_lpm(p, FALSE)
                  IN [d EXCEPT !.sent = @ \cup {"DISABLE_TIMEOUT"},
                               !.hcd = @ \ {lstate}]
    /\ UNCHANGED linkFixed

NextLinkState ==
    \/ \E lstate \in LinkStates, mel \in ExitLatencies, sel_ok \in BOOLEAN,
          timeout \in HcdTimeouts, reserved \in BOOLEAN,
          port_ok \in BOOLEAN, actconfig \in BOOLEAN,
          configured \in BOOLEAN :
          K_usb_enable_link_state(lstate, mel, sel_ok, timeout, reserved,
                                  port_ok, actconfig, configured)
    \/ \E lstate \in LinkStates, port_ok \in BOOLEAN, actconfig \in BOOLEAN,
          configured \in BOOLEAN :
          K_usb_disable_link_state(lstate, port_ok, actconfig, configured)

SpecLinkState == LinkStateInit /\ [][NextLinkState]_vars

\* the last call was usb_enable_link_state and reached the host controller
EnableAsked == link.op = "enable" /\ link.asked

\* the last call left the stored timeout and the timeout of the port of
\* its link state as they were and sent nothing to the port
LinkUntouched ==
    /\ "SET_PORT_FEATURE" \notin link.sent
    /\ StoredTimeout(link, link.state) = link.stored_before
    /\ PortTimeout(link, link.state) = link.port_before

\* the cases of usb_enable_link_state but the request to the device
EnableCases ==
    /\ (EnableAsked /\ link.timeout = 0) => LinkUntouched
    /\ (EnableAsked /\ link.timeout < 0)
          => /\ LinkUntouched
             /\ link.hcd = link.hcd_before
             /\ link.sent = {"SET_SEL"}
    /\ (EnableAsked /\ link.timeout > 0 /\ link.programmed = "ok")
          => /\ PortTimeout(link, link.state) = link.timeout
             /\ StoredTimeout(link, link.state) = link.timeout
             /\ link.state \in link.hcd
    /\ (EnableAsked /\ link.timeout > 0 /\ link.programmed # "ok")
          => /\ StoredTimeout(link, link.state) = link.stored_before
             /\ "DISABLE_TIMEOUT" \in link.sent
             /\ link.state \notin link.hcd
             /\ "SET_FEATURE" \notin link.sent

\* C28 as stated: with timeout 0 from the host controller the link state
\* stays as it is, no port timeout programmed, the stored timeout
\* unchanged; with a negative value nothing is changed; with a positive
\* value the timeout is programmed on the upstream port and stored and the
\* device is told to allow device-initiated transitions if it has an
\* active configuration; if programming the port fails the stored timeout
\* is unchanged and the timeout of the host controller disabled again.
C28_EnableLinkState ==
    /\ EnableCases
    /\ (EnableAsked /\ link.timeout > 0)
          => "SET_PORT_FEATURE" \in link.sent
    /\ (EnableAsked /\ link.timeout > 0 /\ link.programmed = "ok")
          => ("SET_FEATURE" \in link.sent <=> link.actconfig)

\* a U1 timeout that usb_set_lpm_timeout refuses as reserved
ReservedTimeout == link.state = "U1" /\ link.reserved

\* C28: with timeout 0 from the host controller the link state stays as it
\* is, no port timeout programmed, the stored timeout unchanged; with a
\* negative value nothing is changed; with a positive value the timeout is
\* programmed on the upstream port and stored and the device is told to
\* allow device-initiated transitions if it has an active configuration
\* and is in the configured state; if programming the port fails, or the
\* value is a reserved U1 timeout, which is refused without a request to
\* the port, the stored timeout is unchanged and the timeout of the host
\* controller disabled again.
C28_EnableLinkStateConfigured ==
    /\ EnableCases
    /\ (EnableAsked /\ link.timeout > 0)
          => ("SET_PORT_FEATURE" \in link.sent <=> ~ReservedTimeout)
    /\ (EnableAsked /\ link.timeout > 0 /\ link.programmed = "ok")
          => ("SET_FEATURE" \in link.sent
                <=> (link.actconfig /\ link.configured))

\* a timeout of the host controller has been programmed and stored in
\* place of another one and the configured device told
C28_Witness ==
    /\ EnableAsked
    /\ link.timeout > 0
    /\ link.programmed = "ok"
    /\ link.stored_before # link.timeout
    /\ StoredTimeout(link, link.state) = link.timeout
    /\ "SET_FEATURE" \in link.sent

(***************************************************************************)
(* SpecPorts: the end of an attempt of hub_port_connect_change.            *)
(***************************************************************************)
\* khubd leaves the label loop of an attempt that has failed
LoopStep ==
    /\ KH.pc = "loop"
    /\ th'["khubd"] # th["khubd"]

\* the call of hub_port_connect_change has returned to hub_events
CallReturns ==
    /\ th'["khubd"].pc = "port"
    /\ th'["khubd"].port1 = KH.port1 + 1

\* C30: a failed attempt whose status is -ENOTCONN or -ENOTSUPP ends the
\* loop of hub_port_connect_change at once, the call returning without
\* another attempt, and a failed attempt with any other status is followed
\* by the next attempt as long as attempts remain; an attempt that finds
\* the hub gone at the link or a bus-powered hub below a bus-powered hub
\* has status -ENOTCONN.
C30_FatalStatusEndsLoop ==
    /\ [][LoopStep =>
             /\ KH.status # "0"
             /\ KH.status \in {"-ENOTCONN", "-ENOTSUPP"} => CallReturns
             /\ (KH.status \notin {"-ENOTCONN", "-ENOTSUPP"}
                   /\ KH.i + 1 < SET_CONFIG_TRIES)
                   => /\ th'["khubd"].pc = "alloc"
                      /\ th'["khubd"].i = KH.i + 1
                      /\ th'["khubd"].hub = KH.hub
                      /\ th'["khubd"].port1 = KH.port1
         ]_vars
    /\ [][(KH.pc = "link" /\ th'["khubd"].pc = "loop")
             => th'["khubd"].status = "-ENOTCONN"]_vars

\* the first attempt of a call has failed in usb_new_device with -ENOTSUPP
\* and stands at the label loop, attempts remaining
C30_Witness ==
    /\ KH.pc = "loop"
    /\ KH.status = "-ENOTSUPP"
    /\ KH.i = 0
    /\ KH.i + 1 < SET_CONFIG_TRIES
    /\ alloc[KH.udev]

(***************************************************************************)
(* SpecAttempts: the loop of hub_port_connect_change over its enumeration  *)
(* attempts, one pass of the loop per step.  The outcome of a pass is an   *)
(* input: usb_alloc_dev fails, the attempt succeeds, or choose_devnum,     *)
(* hub_port_init, the power test of a hub, the link step or usb_new_device *)
(* leaves an error status.                                                 *)
(***************************************************************************)
\* the statuses after which the loop tries again
RetryStatuses == {"-ENODEV", "-EPROTO", "-ETIMEDOUT"}
\* the outcomes of a pass
AttemptOutcomes == {"nodev", "0", "-ENOTCONN", "-ENOTSUPP"} \cup RetryStatuses

attemptsFixed == <<treeVars, call, db, hubst, port_enabled, lpm, port_owner,
                   rst, hpi, lpm_path, link, pm_usage_cnt, pw, enumVars>>

\* hub_port_connect_change reaches its loop: status = 0, i = 0
A_hub_port_connect_change ==
    /\ att.pc \in {"idle", "done"}
    /\ att' = [NoAttempts EXCEPT !.pc = "attempt"]
    /\ UNCHANGED attemptsFixed

\* one pass of the loop, to its return, to done or to the end of the label
\* loop
A_attempt(outcome) ==
    /\ att.pc = "attempt"
    /\ att' =
         IF outcome = "nodev"
         THEN \* goto done, status as it was
              [att EXCEPT !.pc = "done", !.tries = Append(@, outcome)]
         ELSE IF outcome = "0"
         THEN \* return
              [att EXCEPT !.pc = "done", !.status = outcome,
                          !.tries = Append(@, outcome)]
         ELSE IF loop_ends(outcome, att.i)
         THEN [att EXCEPT !.pc = "done", !.status = outcome,
                          !.tries = Append(@, outcome)]
         ELSE [att EXCEPT !.i = @ + 1, !.status = outcome,
                          !.tries = Append(@, outcome)]
    /\ UNCHANGED attemptsFixed

NextAttempts ==
    \/ A_hub_port_connect_change
    \/ \E outcome \in AttemptOutcomes : A_attempt(outcome)

\* a pass of the loop ends: every call it makes returns
SpecAttempts ==
    Init /\ [][NextAttempts]_vars
    /\ WF_vars(\E outcome \in AttemptOutcomes : A_attempt(outcome))

\* every pass of the call so far failed with a status that is tried again
AllRetried == \A k \in 1..Len(att.tries) : att.tries[k] \in RetryStatuses

\* C31 as stated: a call of hub_port_connect_change ends; it makes at most
\* 3 * (use_both_schemes + 1) attempts, and exactly that many when every
\* attempt fails with a status that is tried again
C31_SixAttempts ==
    /\ [](Len(att.tries) <= 3 * (use_both_schemes + 1))
    /\ [](att.pc = "done" /\ AllRetried
          => Len(att.tries) = 3 * (use_both_schemes + 1))
    /\ (att.pc = "attempt" ~> att.pc = "done")

\* C31: a call of hub_port_connect_change ends; it makes at most
\* 2 * (use_both_schemes + 1) attempts, and exactly that many when every
\* attempt fails with a status that is tried again (4 by default)
C31_FourAttempts ==
    /\ [](Len(att.tries) <= 2 * (use_both_schemes + 1))
    /\ [](att.pc = "done" /\ AllRetried
          => Len(att.tries) = 2 * (use_both_schemes + 1))
    /\ (att.pc = "attempt" ~> att.pc = "done")

\* a call has ended after four attempts that all failed with a status that
\* is tried again
C31_Witness ==
    /\ att.pc = "done"
    /\ AllRetried
    /\ Len(att.tries) = 4
    /\ att.i = 3

(***************************************************************************)
(* hub_port_connect_change for a port whose child is still there.          *)
(***************************************************************************)
\* the port of the call has a child that is not NOTATTACHED
ChildInPlace ==
    /\ child[KH.hub][KH.port1] # NULL
    /\ state[child[KH.hub][KH.port1]] # USB_STATE_NOTATTACHED

RemovedChild ==
    /\ child[KH.hub][KH.port1] # NULL
    /\ KH.port1 \in hubst[KH.hub].removed_bits

\* the call of hub_port_connect_change goes on to the loop of the attempts
StartsToEnumerate ==
    /\ KH.pc \in {"pcc", "disc"}
    /\ th'["khubd"].pc = "alloc"

\* a step clears the removed bit of port p of hub h, h keeping its ports
RemovedBitCleared(h, p) ==
    /\ p \in hubst[h].removed_bits
    /\ p \notin hubst'[h].removed_bits
    /\ maxchild'[h] # 0

\* the worker disconnects the device usb_remove_device was called for
RemovedDeviceDisconnected ==
    [][(KH.pc = "pcc" /\ th'["khubd"] # th["khubd"] /\ RemovedChild)
          => th'["khubd"].pc = "disc"]_vars

\* no device is enumerated on a port whose removed bit stays set
RemovedPortNotEnumerated ==
    [][StartsToEnumerate
          => KH.port1 \notin hubst'[KH.hub].removed_bits]_vars

\* the removed bit of a port is cleared only by hub_port_connect_change
\* for that port, on a status without connection or with a connection
\* change
RemovedBitClearedByPass ==
    [][\A h \in Devs, p \in Ports :
          RemovedBitCleared(h, p)
          => /\ h = KH.hub /\ p = KH.port1
             /\ \E connection \in BOOLEAN, enabled \in BOOLEAN :
                   \/ hub_port_connect_change(connection, enabled, TRUE)
                   \/ hub_port_connect_disconnect(connection, TRUE)
      ]_vars

\* once the bit is clear a connection is enumerated
ConnectEnumeratedAfterwards ==
    [][\A clear_removed \in BOOLEAN :
          (/\ KH.pc \in {"pcc", "disc"}
           /\ KH.port1 \notin hubst'[KH.hub].removed_bits
           /\ \/ /\ KH.pc = "pcc" /\ child[KH.hub][KH.port1] = NULL
                 /\ \E enabled \in BOOLEAN :
                       hub_port_connect_change(TRUE, enabled, clear_removed)
              \/ hub_port_connect_disconnect(TRUE, clear_removed))
          => th'["khubd"].pc = "alloc"
      ]_vars

\* C33: after usb_remove_device on a device the worker disconnects that
\* device and enumerates no device on its port while the removed bit of
\* the port is set; the bit is cleared only when a pass observes the port
\* without connection or with a connection change, after which a
\* connection is enumerated.
C33_RemovedDeviceStaysAway ==
    /\ RemovedDeviceDisconnected
    /\ RemovedPortNotEnumerated
    /\ RemovedBitClearedByPass
    /\ ConnectEnumeratedAfterwards

(***************************************************************************)
(* SpecWorker: hub_thread and hub_events over hub_event_list, the callers  *)
(* of kick_khubd and hub_disconnect, with the autosuspend references of    *)
(* the hub interfaces.  Every device is a bound hub.  What a pass finds    *)
(* after it has locked the hub (the hub NOTATTACHED, an autoresume that    *)
(* fails, hub->quiescing, hub->error and the result of the reset) is an    *)
(* input.  khubd is at "idle" while it sleeps in wait_event_freezable, at  *)
(* "events" at the top of the loop of hub_events and at "wait" between     *)
(* the return of hub_events and the test of wait_event_freezable.          *)
(***************************************************************************)
\* what hub_events finds once it holds the device lock of a hub that is not
\* disconnected
WorkerPaths == {"NOTATTACHED", "autoresume", "quiescing", "error", "normal"}

\* a chain of three hubs, all bound, nothing on hub_event_list
WorkerInit ==
    /\ alloc = [d \in Devs |-> TRUE]
    /\ state = [d \in Devs |-> USB_STATE_CONFIGURED]
    /\ devnum = [d \in Devs |-> d]
    /\ parent = [d \in Devs |-> IF d = RootHub THEN NULL ELSE d - 1]
    /\ portnum = [d \in Devs |-> IF d = RootHub THEN 0 ELSE 1]
    /\ maxchild = [d \in Devs |-> NPorts]
    /\ is_hub = [d \in Devs |-> TRUE]
    /\ active_duration = [d \in Devs |-> 0]
    /\ child = [d \in Devs |-> [p \in Ports |->
                  IF p = 1 /\ d + 1 \in Devs THEN d + 1 ELSE NULL]]
    /\ devicemap = Devs
    /\ devnum_next = 2
    /\ nalloc = MaxAlloc
    /\ hubst = [d \in Devs |-> BoundHub]
    /\ port_enabled = {<<d, 1>> : d \in Devs \ {RootHub + MaxAlloc}}
    /\ lpm = NoLpm
    /\ CallsInit
    /\ hub_event_list = << >>
    /\ disconnected = [d \in Devs |-> FALSE]
    /\ busy_bits = [d \in Devs |-> {}]
    /\ devlock = [d \in Devs |-> NoThread]
    /\ usb_address0_mutex = NoThread
    /\ th = [t \in Threads |-> Idle]
    /\ call = NoCall
    /\ db = NoDebounce

workerFixed == <<treeVars, call, db, port_enabled, lpm, port_owner, rst, hpi,
                 lpm_path, link, att, pw, busy_bits, usb_address0_mutex>>

\* kick_khubd(hub), from hub_irq, hub_activate, usb_wakeup_notification or
\* hub_port_logical_disconnect: usb_autopm_get_interface_no_resume when the
\* hub is put on the list
W_kick_khubd(hub) ==
    /\ hub_event_list' = kick_khubd(hub, hub_event_list)
    /\ pm_usage_cnt' =
          IF hub_event_list' # hub_event_list
          THEN [pm_usage_cnt EXCEPT ![hub] = @ + 1] ELSE pm_usage_cnt
    /\ UNCHANGED <<workerFixed, hubst, disconnected, devlock, th>>

\* hub_thread: wait_event_freezable returns when the list is not empty
W_hub_thread_wake ==
    /\ KH.pc = "idle"
    /\ hub_event_list # << >>
    /\ th' = [th EXCEPT !["khubd"].pc = "events"]
    /\ UNCHANGED <<workerFixed, hubst, disconnected, devlock,
                   hub_event_list, pm_usage_cnt>>

\* hub_events, the top of its loop: break when the list is empty, else
\* list_del_init of the first hub, kref_get and the test of
\* hub->disconnected
W_hub_events_dequeue ==
    /\ KH.pc = "events"
    /\ IF hub_event_list = << >>
       THEN /\ th' = [th EXCEPT !["khubd"].pc = "wait"]
            /\ UNCHANGED <<hub_event_list, hubst>>
       ELSE LET hub == Head(hub_event_list) IN
            /\ hub_event_list' = Tail(hub_event_list)
            /\ hubst' = [hubst EXCEPT ![hub].kref = kref_get(@)]
            /\ th' = [th EXCEPT !["khubd"] =
                        IF disconnected[hub]
                        THEN [Idle EXCEPT !.pc = "w_exit", !.hub = hub,
                                          !.status = "hub_disconnected"]
                        ELSE [Idle EXCEPT !.pc = "w_lock", !.hub = hub]]
    /\ UNCHANGED <<workerFixed, disconnected, devlock, pm_usage_cnt>>

\* hub_thread after hub_events has returned: wait_event_freezable tests the
\* list before it sleeps
W_hub_thread_wait ==
    /\ KH.pc = "wait"
    /\ th' = [th EXCEPT !["khubd"].pc =
                 IF hub_event_list # << >> THEN "events" ELSE "idle"]
    /\ UNCHANGED <<workerFixed, hubst, disconnected, devlock,
                   hub_event_list, pm_usage_cnt>>

\* hub_events from usb_lock_device to the loop over the ports or to the
\* label the pass leaves by
W_hub_events_lock(path) ==
    /\ KH.pc = "w_lock"
    /\ devlock[KH.hub] = NoThread
    /\ devlock' = [devlock EXCEPT ![KH.hub] = "khubd"]
    /\ th' = [th EXCEPT !["khubd"] =
                IF disconnected[KH.hub]
                THEN [KH EXCEPT !.pc = "w_exit",
                                !.status = "loop_disconnected"]
                ELSE IF path \in {"NOTATTACHED", "autoresume"}
                THEN [KH EXCEPT !.pc = "w_exit", !.status = "loop"]
                ELSE IF path = "quiescing"
                THEN [KH EXCEPT !.pc = "w_exit", !.status = "loop_autopm"]
                ELSE IF path = "error"
                THEN [KH EXCEPT !.pc = "w_reset"]
                ELSE [KH EXCEPT !.pc = "w_ports"]]
    \* usb_autopm_get_interface that returned 0
    /\ pm_usage_cnt' =
          IF ~disconnected[KH.hub] /\ path \in {"quiescing", "error", "normal"}
          THEN [pm_usage_cnt EXCEPT ![KH.hub] = @ + 1] ELSE pm_usage_cnt
    /\ UNCHANGED <<workerFixed, hubst, disconnected, hub_event_list>>

\* hub_events: usb_reset_device for hub->error
W_usb_reset_device(ret) ==
    /\ KH.pc = "w_reset"
    /\ th' = [th EXCEPT !["khubd"] =
                IF ret = "0" THEN [KH EXCEPT !.pc = "w_ports"]
                ELSE [KH EXCEPT !.pc = "w_exit", !.status = "loop_autopm"]]
    /\ UNCHANGED <<workerFixed, hubst, disconnected, devlock,
                   hub_event_list, pm_usage_cnt>>

\* hub_events: the loop over the ports and the status of the hub
W_hub_events_ports ==
    /\ KH.pc = "w_ports"
    /\ th' = [th EXCEPT !["khubd"] =
                [KH EXCEPT !.pc = "w_exit", !.status = "loop_autopm"]]
    /\ UNCHANGED <<workerFixed, hubst, disconnected, devlock,
                   hub_event_list, pm_usage_cnt>>

\* the references the labels of hub_events give back, from the label the
\* pass leaves by: usb_autopm_put_interface_no_suspend at loop_autopm,
\* usb_autopm_put_interface at loop
puts_at_label(label) ==
    IF label = "loop_autopm" THEN 2 ELSE IF label = "loop" THEN 1 ELSE 0

\* hub_events: the labels loop_autopm, loop, loop_disconnected and
\* hub_disconnected, back to the top of the loop
W_hub_events_exit ==
    /\ KH.pc = "w_exit"
    /\ pm_usage_cnt' =
          [pm_usage_cnt EXCEPT ![KH.hub] = @ - puts_at_label(KH.status)]
    /\ devlock' = IF KH.status = "hub_disconnected" THEN devlock
                  ELSE [devlock EXCEPT ![KH.hub] = NoThread]
    /\ hubst' = [hubst EXCEPT ![KH.hub] = kref_put(@)]
    /\ th' = [th EXCEPT !["khubd"] = [Idle EXCEPT !.pc = "events"]]
    /\ UNCHANGED <<workerFixed, disconnected, hub_event_list>>

\* hub_disconnect, called with the device locked: the hub is taken off the
\* list, its reference given back, and hub->disconnected set
W_hub_disconnect(hub) ==
    /\ ~disconnected[hub]
    /\ devlock[hub] = NoThread
    /\ devlock' = [devlock EXCEPT ![hub] = Unbinder]
    /\ hub_event_list' = SelectSeq(hub_event_list, LAMBDA h : h # hub)
    /\ pm_usage_cnt' =
          IF hub \in Range(hub_event_list)
          THEN [pm_usage_cnt EXCEPT ![hub] = @ - 1] ELSE pm_usage_cnt
    /\ disconnected' = [disconnected EXCEPT ![hub] = TRUE]
    /\ UNCHANGED <<workerFixed, hubst, th>>

\* hub_disconnect from hub_quiesce to its kref_put; the caller unlocks the
\* device
W_hub_disconnect_end(hub) ==
    /\ devlock[hub] = Unbinder
    /\ hubst' = [hubst EXCEPT ![hub] = kref_put(@)]
    /\ devlock' = [devlock EXCEPT ![hub] = NoThread]
    /\ UNCHANGED <<workerFixed, disconnected, hub_event_list, pm_usage_cnt,
                   th>>

\* the steps of khubd
WorkerRuns ==
    \/ W_hub_thread_wake
    \/ W_hub_events_dequeue
    \/ W_hub_thread_wait
    \/ \E path \in WorkerPaths : W_hub_events_lock(path)
    \/ \E ret \in ResetResults : W_usb_reset_device(ret)
    \/ W_hub_events_ports
    \/ W_hub_events_exit

NextWorker ==
    \/ WorkerRuns
    \/ \E hub \in Devs : W_kick_khubd(hub)
    \/ \E hub \in Devs : W_hub_disconnect(hub)
    \/ \E hub \in Devs : W_hub_disconnect_end(hub)

\* khubd is scheduled, and a hub_disconnect that has begun ends
SpecWorker ==
    WorkerInit /\ [][NextWorker]_vars
    /\ WF_vars(WorkerRuns)
    /\ \A hub \in Devs : WF_vars(W_hub_disconnect_end(hub))

\* the references to the interface of a hub that are due: one while the hub
\* is on the list, one from the dequeue to the label loop, one from
\* usb_autopm_get_interface to the label loop_autopm
ReferencesDue(h) ==
    (IF h \in Range(hub_event_list) THEN 1 ELSE 0)
    + (IF KH.hub = h /\ KH.pc \in {"w_lock", "w_reset", "w_ports", "w_exit"}
       THEN 1 ELSE 0)
    + (IF KH.hub = h /\ (KH.pc \in {"w_reset", "w_ports"}
                         \/ (KH.pc = "w_exit" /\ KH.status = "loop_autopm"))
       THEN 1 ELSE 0)

\* C34: every reference kick_khubd takes is given back exactly once, by
\* the pass of hub_events that dequeues the hub or by hub_disconnect: the
\* count of the interface of a hub is what is due, on every path and for
\* every interleaving.
C34_KickReferenceBalanced ==
    \A h \in Devs : pm_usage_cnt[h] = ReferencesDue(h)

(***************************************************************************)
(* hub_event_list as a queue (SpecWorker).                                 *)
(***************************************************************************)
\* a step puts hub h at the tail of the list
EnqueuedAtTail(h) ==
    /\ h \notin Range(hub_event_list)
    /\ hub_event_list' = Append(hub_event_list, h)

\* a step of hub_events takes the first hub of the list
DequeuedFromHead ==
    /\ hub_event_list # << >>
    /\ hub_event_list' = Tail(hub_event_list)
    /\ KH.pc = "events"
    /\ th'["khubd"].hub = Head(hub_event_list)

\* hub_disconnect takes hub h off the list, the others keeping their order
RemovedByDisconnect(h) ==
    /\ ~disconnected[h]
    /\ disconnected'[h]
    /\ hub_event_list' = SelectSeq(hub_event_list, LAMBDA g : g # h)

\* C38: with khubd scheduled, every hub kick_khubd puts on hub_event_list
\* leaves it, dequeued by hub_events unless hub_disconnect removes it
\* first; khubd goes to sleep only when the list is empty and a sleeping
\* khubd wakes up when it is not, unless hub_disconnect empties it first;
\* hubs are put at the tail and taken from the head, so they are dequeued
\* in the order they were enqueued.
C38_QueueServedInOrder ==
    /\ \A h \in Devs :
          (h \in Range(hub_event_list)) ~> (h \notin Range(hub_event_list))
    /\ [][(KH.pc # "idle" /\ th'["khubd"].pc = "idle")
             => hub_event_list' = << >>]_vars
    /\ ((KH.pc = "idle" /\ hub_event_list # << >>)
           ~> (KH.pc # "idle" \/ hub_event_list = << >>))
    /\ [][hub_event_list' # hub_event_list
             => \/ \E h \in Devs : EnqueuedAtTail(h)
                \/ DequeuedFromHead
                \/ \E h \in Devs : RemovedByDisconnect(h)]_vars

\* khubd has dequeued hub 2 and waits for its device lock while hub 3 and
\* the root hub, enqueued after it, are on the list in that order
C38_Witness ==
    /\ KH.pc = "w_lock"
    /\ KH.hub = RootHub + 1
    /\ hub_event_list = <<RootHub + 2, RootHub>>
    /\ devlock[KH.hub] # NoThread

(***************************************************************************)
(* SpecPower: one device without a hub structure on a port of the root     *)
(* hub, and the calls that suspend, resume and reset it: usb_new_device,   *)
(* usb_port_suspend, usb_port_resume, usb_reset_and_verify_device and      *)
(* usb_disconnect.  The callers hold the device lock, so one call runs at  *)
(* a time; a call that sets the busy bit of the port takes one step to the *)
(* set_bit and one step per request or attempt after it.  The device is    *)
(* LPM-capable and SuperSpeed; the outcome of every request is an input.   *)
(* lpm.lpm_disable_count is the count of the device, busy_bits the busy    *)
(* bits of the hub, pw the rest.                                           *)
(***************************************************************************)
\* the hub and the port of the device
PowerHub == RootHub
PowerPort == 1
\* calls made in one run
MaxPowerCalls == 5
\* what hub_port_init returns to usb_reset_and_verify_device
ResetInitResults == {"0", "-ENOTCONN", "-ENODEV", "-EPROTO"}
\* what check_port_resume_type finds in a port status that was read: the
\* port resumed and enabled, resumed and not enabled, or not usable
ResumeTypes == {"enabled", "not_enabled", "gone"}

powerFixed == <<treeVars, call, db, port_owner, rst, hpi, lpm_path, link,
                att, pm_usage_cnt, disconnected, devlock,
                usb_address0_mutex, th>>

\* the device, its port and the call as they are now; disc says that the
\* call has run hub_port_logical_disconnect
PowerNow ==
    [p |-> pw, count |-> lpm.lpm_disable_count,
     busy |-> PowerPort \in busy_bits[PowerHub], disc |-> FALSE]

\* the variables after a step that leaves s
PowerStep(s) ==
    /\ pw' = s.p
    /\ lpm' = [lpm EXCEPT !.lpm_disable_count = s.count]
    /\ busy_bits' = [busy_bits EXCEPT ![PowerHub] =
                        IF s.busy THEN @ \cup {PowerPort}
                        ELSE @ \ {PowerPort}]
    /\ hubst' = IF s.disc
                THEN [hubst EXCEPT ![PowerHub].change_bits =
                         @ \cup {PowerPort}]
                ELSE hubst
    /\ hub_event_list' = IF s.disc
                         THEN kick_khubd(PowerHub, hub_event_list)
                         ELSE hub_event_list
    /\ port_enabled' =
          IF s.disc
          THEN hub_port_disable(PowerHub, PowerPort, port_enabled)
          ELSE IF pw.pc = "none"
          THEN port_enabled \cup {<<PowerHub, PowerPort>>}
          ELSE port_enabled
    /\ UNCHANGED powerFixed

\* usb_enable_lpm on the count
P_usb_enable_lpm(s) == [s EXCEPT !.count = @ - 1]

\* usb_disable_lpm on the count: when a usb_disable_link_state fails the
\* function calls usb_enable_lpm at the label enable_lpm and returns -EBUSY
P_usb_disable_lpm(s, ok) ==
    LET a == [s EXCEPT !.count = @ + 1] IN
    IF ok THEN a ELSE P_usb_enable_lpm(a)

\* hub_port_logical_disconnect: the device has no hub structure, so
\* usb_set_device_state leaves its state as it is
P_hub_port_logical_disconnect(s) == [s EXCEPT !.disc = TRUE]

\* a call that leaves the busy bit of the port as it is
clear_busy_skipped(s) == s

\* clear_bit(port1, hub->busy_bits)
clear_busy(s) == [s EXCEPT !.busy = FALSE]

\* set_bit(port1, hub->busy_bits)
set_busy(s) == [s EXCEPT !.busy = TRUE]

\* the return of a call
PowerReturn(s, op, ret) ==
    [s EXCEPT !.p.pc = "idle", !.p.caller = "none", !.p.last = op,
              !.p.ret = ret, !.p.reset_resume = FALSE]

\* usb_port_suspend from the test of status after the port request to its
\* return: the reference of the port is given back when status is 0, the
\* device does not wake up the host and persist is enabled
suspend_return(s, status) ==
    LET a == IF status = "0" /\ ~s.p.do_remote_wakeup /\ s.p.persist_enabled
             THEN [s EXCEPT !.p.usage_count = @ - 1,
                            !.p.did_runtime_put = TRUE]
             ELSE s
    IN PowerReturn(a, "suspend", status)

\* usb_port_suspend of a device below a SuperSpeed hub.  A system sleep
\* goes on after a failure, and its status is 0 at the end
usb_port_suspend(s, auto, wakeup_ok, ltm_ok, lpm_ok, port_ok) ==
    IF s.p.do_remote_wakeup /\ ~wakeup_ok /\ auto
    THEN suspend_return(s, "-EIO")
    ELSE IF ~ltm_ok /\ auto
    THEN suspend_return(s, "-ENOMEM")
    ELSE LET a == P_usb_disable_lpm(s, lpm_ok) IN
         IF ~lpm_ok /\ auto
         THEN suspend_return(a, "-ENOMEM")
         ELSE IF ~port_ok
         THEN suspend_return(P_usb_enable_lpm(a),
                             IF auto THEN "-EIO" ELSE "0")
         ELSE suspend_return(
                 [a EXCEPT !.p.port_is_suspended = TRUE,
                           !.p.state = USB_STATE_SUSPENDED], "0")

\* usb_port_resume from the return of finish_port_resume, or of
\* check_port_resume_type when it fails, to its own
resume_finish(s, status) ==
    IF status # "0"
    THEN PowerReturn(P_hub_port_logical_disconnect(s), "resume", status)
    ELSE PowerReturn(P_usb_enable_lpm(s), "resume", "0")

\* the return of usb_reset_and_verify_device, to finish_port_resume and its
\* usb_get_status when that is the caller
reset_return(s, ret, get_status_ok) ==
    IF s.p.caller = "resume"
    THEN resume_finish(s, IF ret # "0" THEN ret
                          ELSE IF get_status_ok THEN "0" ELSE "-ENODEV")
    ELSE PowerReturn(s, "reset", ret)

\* usb_reset_and_verify_device up to its set_bit
reset_entry(s, lpm_ok, ltm_ok) ==
    IF s.p.state \in {USB_STATE_NOTATTACHED, USB_STATE_SUSPENDED}
    THEN reset_return(s, "-EINVAL", FALSE)
    ELSE LET a == P_usb_disable_lpm([s EXCEPT !.p.i = 0], lpm_ok) IN
         IF ~lpm_ok \/ ~ltm_ok
         THEN reset_return(P_hub_port_logical_disconnect(a), "-ENODEV",
                           FALSE)
         ELSE [set_busy(a) EXCEPT !.p.pc = "reset_busy"]

\* finish_port_resume: the state is set, the device is reset first when
\* reset_resume is set, and after a usb_get_status that fails when persist
\* is enabled
finish_port_resume(s, get_status_ok, lpm_ok, ltm_ok) ==
    LET a == [s EXCEPT !.p.state = USB_STATE_CONFIGURED,
                       !.p.caller = "resume"] IN
    IF a.p.reset_resume
    THEN reset_entry(a, lpm_ok, ltm_ok)
    ELSE IF get_status_ok
    THEN resume_finish(a, "0")
    ELSE IF a.p.persist_enabled
    THEN reset_entry([a EXCEPT !.p.reset_resume = TRUE], lpm_ok, ltm_ok)
    ELSE resume_finish(a, "-ENODEV")

\* check_port_resume_type: the status it returns
check_port_resume_type(s, type) ==
    IF s.p.status # "0" THEN s.p.status
    ELSE IF type = "gone" THEN "-ENODEV"
    ELSE IF type = "not_enabled" /\ ~s.p.reset_resume
            /\ ~s.p.persist_enabled
    THEN "-ENODEV"
    ELSE "0"

\* usb_new_device registers the device: pm_runtime_get_sync on the port.
\* The device structure is new, the port structure is the one of the hub
P_usb_new_device(persist_enabled) ==
    /\ pw.pc = "none"
    /\ pw.calls < MaxPowerCalls
    /\ PowerStep([PowerNow EXCEPT
          !.count = 0,
          !.p = [NoPower EXCEPT
                   !.pc = "idle", !.last = "new",
                   !.state = USB_STATE_CONFIGURED,
                   !.persist_enabled = persist_enabled,
                   !.did_runtime_put = pw.did_runtime_put,
                   !.usage_count = pw.usage_count + 1,
                   !.calls = pw.calls + 1]])

\* usb_disconnect of the device: the reference of the port is given back
\* unless did_runtime_put says it has been
P_usb_disconnect ==
    /\ pw.pc = "idle"
    /\ PowerStep([PowerNow EXCEPT
          !.p = [pw EXCEPT
                   !.pc = "none", !.last = "disconnect",
                   !.state = USB_STATE_NOTATTACHED,
                   !.usage_count = IF pw.did_runtime_put THEN @ ELSE @ - 1,
                   !.did_runtime_put = FALSE]])

\* usb_port_suspend, for an automatic suspend or a system sleep, of a
\* device that is not suspended
P_usb_port_suspend(auto, do_remote_wakeup, wakeup_ok, ltm_ok, lpm_ok, port_ok) ==
    /\ pw.pc = "idle"
    /\ pw.calls < MaxPowerCalls
    /\ pw.state \notin {USB_STATE_NOTATTACHED, USB_STATE_SUSPENDED}
    /\ PowerStep(usb_port_suspend(
          [PowerNow EXCEPT !.p.do_remote_wakeup = do_remote_wakeup,
                           !.p.before = lpm.lpm_disable_count,
                           !.p.calls = @ + 1],
          auto, wakeup_ok, ltm_ok, lpm_ok, port_ok))

\* usb_port_resume of a suspended device, to its set_bit or, when the port
\* is found resumed, to the label SuspendCleared
P_usb_port_resume(reset_resume, get_ok, read_ok, suspended) ==
    /\ pw.pc = "idle"
    /\ pw.calls < MaxPowerCalls
    /\ pw.state = USB_STATE_SUSPENDED
    /\ LET s == [PowerNow EXCEPT !.p.calls = @ + 1,
                                 !.p.reset_resume = reset_resume]
           a == IF pw.did_runtime_put
                THEN [s EXCEPT !.p.usage_count = @ + 1,
                               !.p.did_runtime_put = FALSE]
                ELSE s
       IN PowerStep(
            IF pw.did_runtime_put /\ ~get_ok
            THEN PowerReturn(a, "resume", "-EIO")
            ELSE IF read_ok /\ ~suspended
            THEN [a EXCEPT !.p.pc = "resume_cleared", !.p.status = "0"]
            ELSE [set_busy(a) EXCEPT !.p.pc = "resume_busy"])

\* usb_port_resume: the request that resumes the port and the status read
\* after it
P_resume_port(req_ok, read_ok) ==
    /\ pw.pc = "resume_busy"
    /\ PowerStep([PowerNow EXCEPT
          !.p.pc = "resume_cleared",
          !.p.status = IF req_ok /\ read_ok THEN "0" ELSE "-EIO"])

\* usb_port_resume from the label SuspendCleared: clear_bit,
\* check_port_resume_type, finish_port_resume and the return
P_resume_cleared(type, get_status_ok, lpm_ok, ltm_ok) ==
    /\ pw.pc = "resume_cleared"
    /\ LET s == clear_busy(
                  IF pw.status = "0"
                  THEN [PowerNow EXCEPT !.p.port_is_suspended = FALSE]
                  ELSE PowerNow)
           status == check_port_resume_type(s, type)
           a == IF status = "0" /\ type = "not_enabled"
                THEN [s EXCEPT !.p.reset_resume = TRUE] ELSE s
       IN PowerStep(
            IF status = "0"
            THEN finish_port_resume(a, get_status_ok, lpm_ok, ltm_ok)
            ELSE resume_finish(a, status))

\* usb_reset_and_verify_device called by usb_reset_device
P_usb_reset_and_verify_device(lpm_ok, ltm_ok) ==
    /\ pw.pc = "idle"
    /\ pw.calls < MaxPowerCalls
    /\ PowerStep(reset_entry([PowerNow EXCEPT !.p.calls = @ + 1],
                             lpm_ok, ltm_ok))

\* usb_reset_and_verify_device: one hub_port_init of its loop, and after
\* the last one clear_bit and the rest of the function; restored says
\* that the descriptors are unchanged and the configuration is restored
P_reset_attempt(ret, restored, get_status_ok) ==
    /\ pw.pc = "reset_busy"
    /\ PowerStep(
         IF ret \notin {"0", "-ENOTCONN", "-ENODEV"}
            /\ pw.i + 1 < SET_CONFIG_TRIES
         THEN [PowerNow EXCEPT !.p.i = @ + 1]
         ELSE LET a == clear_busy(
                         IF ret \in {"0", "-ENOTCONN", "-ENODEV"}
                         THEN PowerNow
                         ELSE [PowerNow EXCEPT !.p.i = @ + 1]) IN
              IF ret # "0" \/ ~restored
              THEN reset_return(P_hub_port_logical_disconnect(a),
                                "-ENODEV", get_status_ok)
              ELSE reset_return(P_usb_enable_lpm(a), "0", get_status_ok))

NextPower ==
    \/ \E persist_enabled \in BOOLEAN : P_usb_new_device(persist_enabled)
    \/ P_usb_disconnect
    \/ \E auto \in BOOLEAN, do_remote_wakeup \in BOOLEAN,
          wakeup_ok \in BOOLEAN, ltm_ok \in BOOLEAN, lpm_ok \in BOOLEAN,
          port_ok \in BOOLEAN :
          P_usb_port_suspend(auto, do_remote_wakeup, wakeup_ok, ltm_ok,
                             lpm_ok, port_ok)
    \/ \E reset_resume \in BOOLEAN, get_ok \in BOOLEAN, read_ok \in BOOLEAN,
          suspended \in BOOLEAN :
          P_usb_port_resume(reset_resume, get_ok, read_ok, suspended)
    \/ \E req_ok \in BOOLEAN, read_ok \in BOOLEAN :
          P_resume_port(req_ok, read_ok)
    \/ \E type \in ResumeTypes, get_status_ok \in BOOLEAN,
          lpm_ok \in BOOLEAN, ltm_ok \in BOOLEAN :
          P_resume_cleared(type, get_status_ok, lpm_ok, ltm_ok)
    \/ \E lpm_ok \in BOOLEAN, ltm_ok \in BOOLEAN :
          P_usb_reset_and_verify_device(lpm_ok, ltm_ok)
    \/ \E ret \in ResetInitResults, restored \in BOOLEAN,
          get_status_ok \in BOOLEAN :
          P_reset_attempt(ret, restored, get_status_ok)

SpecPower == Init /\ [][NextPower]_vars

\* C35: for an LPM-capable SuperSpeed device usb_port_suspend followed by
\* usb_port_resume leaves lpm_disable_count at the value it had before the
\* suspend, whatever the requests in between return and for automatic
\* suspends and system sleeps alike; every usb_enable_lpm call is matched
\* by an earlier usb_disable_lpm call that succeeded, so the count is never
\* below zero.
C35_LpmCountRestored ==
    /\ lpm.lpm_disable_count >= 0
    /\ (pw.pc = "idle" /\ pw.last = "resume")
          => lpm.lpm_disable_count = pw.before

\* C36: the runtime-PM reference of the port taken by usb_new_device is
\* held exactly when the device is registered and did_runtime_put is
\* false; over every sequence of usb_port_suspend, usb_port_resume and
\* usb_disconnect it is given back once and never twice, and
\* did_runtime_put is false once the device is disconnected.
C36_PortReferenceHeld ==
    /\ pw.usage_count =
          (IF pw.pc # "none" /\ ~pw.did_runtime_put THEN 1 ELSE 0)
    /\ pw.pc = "none" => ~pw.did_runtime_put

\* C37: the busy bit that usb_port_resume or usb_reset_and_verify_device
\* sets is clear when the function returns, whether it succeeds or fails:
\* between calls the port is not busy.
C37_BusyClearedOnReturn ==
    pw.pc \in {"none", "idle"} => PowerPort \notin busy_bits[PowerHub]

\* usb_reset_and_verify_device has returned -ENODEV after every
\* hub_port_init of its loop failed, and the port is not busy
C37_Witness ==
    /\ pw.pc = "idle"
    /\ pw.last = "reset"
    /\ pw.ret = "-ENODEV"
    /\ pw.i = SET_CONFIG_TRIES
    /\ PowerPort \in hubst[PowerHub].change_bits
    /\ PowerPort \notin busy_bits[PowerHub]

(***************************************************************************)
(* hub_port_init and usb_address0_mutex (Spec).                            *)
(***************************************************************************)
\* thread t is inside hub_port_init
InHubPortInit(t) == th[t].pc \in {"init_reset", "init_addr"}

\* C39: hub_port_init releases usb_address0_mutex on every return path,
\* after a port reset that fails, after a later failure and on success:
\* the mutex is held only by a context that is inside hub_port_init past
\* its port reset, and every step that returns from hub_port_init leaves
\* the mutex free, so a context that waits for it is never blocked by a
\* call that has ended.
C39_MutexReleasedOnReturn ==
    /\ [](\A t \in Threads :
             usb_address0_mutex = t <=> th[t].pc = "init_addr")
    /\ [][\A t \in Threads :
             (InHubPortInit(t) /\ ~InHubPortInit(t)')
                => usb_address0_mutex' = NoThread]_vars

\* khubd has returned from a hub_port_init that failed after its port
\* reset, the device still in the DEFAULT state, and the mutex is free for
\* the resetter that waits for it
C39_Witness ==
    /\ KH.pc = "loop"
    /\ KH.status = "-EPROTO"
    /\ state[KH.udev] = USB_STATE_DEFAULT
    /\ th["reset"].pc = "init_reset"
    /\ usb_address0_mutex = NoThread

(***************************************************************************)
(* A turn of hub_events whose status read fails (SpecBusy).                *)
(***************************************************************************)
\* the turn for port i has called hub_port_status
StatusRead(i) ==
    /\ TurnFor(i)
    /\ call'.ret \notin {"continue_busy", "continue"}

\* C40: a turn of hub_events that reads the status of a port has cleared
\* the event bit and the wakeup bit of the port; when the read fails the
\* turn goes on to the next port with the two bits clear and the change
\* bit as it was, and does not put the hub on hub_event_list.
C40_FailedReadSkipsPort ==
    [][\A i \in Ports :
         /\ StatusRead(i)
              => /\ i \notin hubst'[TheHub].event_bits
                 /\ i \notin hubst'[TheHub].wakeup_bits
         /\ (StatusRead(i) /\ call'.ret = "read_failed")
              => /\ (i \in hubst'[TheHub].change_bits)
                       = (i \in hubst[TheHub].change_bits)
                 /\ hub_event_list' = hub_event_list
                 /\ th'["khubd"].pc = "port"
                 /\ th'["khubd"].port1 = i + 1]_vars

\* the status read of port 1 has failed and the turn has gone on to port
\* 2: the change bit of port 1 is still set, its event and wakeup bit are
\* clear, and the hub is not on hub_event_list
C40_Witness ==
    /\ call.ret = "read_failed"
    /\ call.port1 = 1
    /\ KH.pc = "port"
    /\ KH.port1 = 2
    /\ 1 \in hubst[TheHub].change_bits
    /\ 1 \notin hubst[TheHub].event_bits
    /\ 1 \notin hubst[TheHub].wakeup_bits
    /\ hub_event_list = << >>

====
